---- MODULE Spec2Model ----
(***************************************************************************)
(* Model of the iBenthos geotagging tool: the controller slot that starts  *)
(* a batch (MainController.run_geotagging_process), the background worker  *)
(* (GeotagWorker.run in controller.py and in main.py) and the events the   *)
(* worker posts to the GUI thread (FeedbackModel, progress bar).           *)
(***************************************************************************)
EXTENDS Integers, Sequences, FiniteSets, TLC

\* ------------------------------------------------------------------ bounds
\* largest number of image files found under the import directory
MaxImages == 2

\* ------------------------------------------------------- values and inputs
\* The two revisions of the worker: controller.py (_process_image + run) and
\* main.py (the loop body inlined in run).
Variants == {"controller", "main"}

\* A path string is a sequence of tokens; "file://" is the URL prefix token
\* and the empty sequence is the empty string.
FileUrl == "file://"

\* directories that exist on disk
ExistingDirs == {<<"/in">>, <<"/out">>}

\* strings the importDirectory field is drawn from
ImportInputs == {<<>>, <<"/in">>, <<FileUrl, "/in">>}

\* strings the exportDirectory field is drawn from
ExportInputs == {<<>>, <<"/missing">>, <<"/out">>, <<"/in">>, <<FileUrl, "/in">>}

\* What happens to one image file when it is processed:
\*   ok            every call succeeds
\*   read_error    et.get_metadata raises
\*   out_of_range  tagger.generate_gps_tags raises IndexError
\*   no_time       tagger.generate_gps_tags raises AssertionError
\*   mkdir_error   save_fn.parent.mkdir raises (OSError)
\*   no_parent     mkdir returns but save_fn.parent does not exist
\*   write_error   et.set_tags raises after the copy
\*   kml_keyerror  kml_gen.add_image_point raises KeyError
Skips == {"out_of_range", "no_time"}
Fates == {"ok", "read_error", "out_of_range", "no_time", "mkdir_error",
          "no_parent", "write_error", "kml_keyerror"}

RECURSIVE SeqsUpTo(_, _)
SeqsUpTo(S, n) ==
  IF n = 0 THEN {<<>>}
  ELSE LET shorter == SeqsUpTo(S, n - 1)
       IN  shorter \cup {Append(s, x) : s \in {t \in shorter : Len(t) = n - 1}, x \in S}

\* possible results of _get_images: the files in enumeration order
ImageLists == SeqsUpTo(Fates, MaxImages)

Range(s) == {s[i] : i \in 1..Len(s)}

\* a line of the feedback log or a logger record: what it says and the image
\* (position in the enumeration, 0 when the line names no image) it names
Line(kind, img) == [kind |-> kind, img |-> img]

VARIABLES
  variant,          \* which revision of the worker runs
  importDirectory,  \* UserInputModel.importDirectory
  exportDirectory,  \* UserInputModel.exportDirectory
  ifdoEnable,       \* UserInputModel.ifdoEnable
  exportKML,        \* UserInputModel.exportKML
  config,           \* GeotagWorkerConfig of the current worker, or NoConfig
  pc,               \* position of the worker: idle, started, loop, done, raised
  image_list,       \* run: image_list
  idx,              \* run: number of images the loop has passed
  progress_emits,   \* worker.progress emissions of this run, <<idx, total>>
  error_msgs,       \* worker.error_msgs emissions of this run
  logged,           \* logger.error records of this run
  finished_emits,   \* worker.finished emissions of this run
  export_files,     \* images whose copy exists under the export directory
  tagged_files,     \* images whose copy had its tags written
  ifdo_added,       \* calls of add_to_ifdo / IFDOModel.add_image_properties
  kml_added,        \* calls of ImageKMLGenerator.add_image_point
  ifdo_exports,     \* calls of IFDOModel.export_ifdo_yaml
  kml_saves,        \* calls of ImageKMLGenerator.save
  thread,           \* worker QThread: none, running, quitting, finished
  mainQueue,        \* queued slot invocations pending in the GUI thread
  feedbackText,     \* FeedbackModel._feedback_text, as a sequence of lines
  progress,         \* FeedbackModel._progress
  progress_bar      \* MainWindow._progress_bar value

\* State of the parts that are exercised on their own, outside a batch: the
\* form and its validator, the Timezone class, the tagging library and the
\* directory listing.  A batch leaves all of them alone.
VARIABLES
  form,             \* UserInputModel: the fields of the form
  edited,           \* a field of the form was set since the form was built
  validator,        \* UserInputModelValidator: revision, latest_errors, last result
  clearForm_result, \* how the last clearForm call ended: none, returned, TypeError
  tz,               \* Timezone / TimezoneWorkaround instance, or NoTimezone
  tz_query,         \* last utcoffset(dt) / dst(dt) call and its results
  tagger,           \* PhotoTransectGPSTagger: the track and the clock offset
  tag_call,         \* last generate_gps_tags call and its result
  disk,             \* the paths that exist, for _get_images / countImages
  listing           \* last _get_images / countImages call and its result

\* State of one GeotagWorker followed statement by statement through
\* _process_image: the paths, the tag dictionaries and the files it writes.
VARIABLES
  worker,           \* GeotagWorker: its config, run's image_list and idx
  frame,            \* locals of the current _process_image call
  step,             \* the statement of _process_image / run that is next
  files,            \* files written so far: path and content
  dirs,             \* directories created so far
  trace,            \* the file and collaborator operations, in order
  tag_calls,        \* calls of tagger.generate_gps_tags: tagger, tz_override
  ifdo_calls,       \* calls of IFDOModel.add_image_properties: path, hash
  taggers_built     \* calls of PhotoTransectGPSTagger.from_files so far

processVars  == <<worker, frame, step, files, dirs, trace, tag_calls, ifdo_calls,
                  taggers_built>>
\* Clicks on Start while an earlier worker may still be running.
VARIABLES
  workerthreads,    \* the QThreads started so far: state, export_dir of the worker
  application       \* the GUI process: running, or aborted by qFatal

clickVars    == <<workerthreads, application>>
\* FeedbackModel.updateProgress called on its own.
VARIABLES
  update_call,      \* the last updateProgress call: its arguments
  progressChanged   \* the values progressChanged was emitted with by that call

feedbackVars == <<update_call, progressChanged>>
\* The checkboxes and the fields they switch in MainWindow.
VARIABLES
  window            \* MainWindow: checkboxes, enabled groups, field texts

windowVars   == <<window>>

\* The legacy GUI's model fields and its GPX threads (ibenthos_pt_ifdo_gui).
VARIABLES
  gpx_filepath,     \* UserInputModel._gpx_filepath
  site_lat,         \* UserInputModel._site_lat
  site_lon,         \* UserInputModel._site_lon
  gpx_threads       \* the threads gpxFileSelected started, in start order

gpxVars      == <<gpx_filepath, site_lat, site_lon, gpx_threads>>
componentVars == <<processVars, clickVars, feedbackVars, windowVars, gpxVars>>

formVars     == <<form, edited, validator, clearForm_result>>
timezoneVars == <<tz, tz_query>>
taggerVars   == <<tagger, tag_call>>
imagesVars   == <<disk, listing>>

userVars   == <<variant, importDirectory, exportDirectory, ifdoEnable, exportKML,
                formVars, timezoneVars, taggerVars, imagesVars, componentVars>>
batchInputVars == <<variant, importDirectory, exportDirectory, ifdoEnable, exportKML>>
workerVars == <<config, pc, image_list, idx, progress_emits, error_msgs, logged,
                finished_emits, export_files, tagged_files, ifdo_added, kml_added,
                ifdo_exports, kml_saves>>
guiVars    == <<thread, mainQueue, feedbackText, progress, progress_bar>>
vars       == <<userVars, workerVars, guiVars>>

NoConfig == [import_dir |-> <<>>, export_dir |-> <<>>, ifdo_model |-> FALSE,
             kml_export |-> FALSE]

\* ------------------------------------------------------------- validation
\* str.replace("file://", "")
replace_file_url(s) == SelectSeq(s, LAMBDA t : t # FileUrl)

\* MainController._strip_file_url: str.removeprefix("file://")
strip_file_url(s) == IF Len(s) > 0 /\ Head(s) = FileUrl THEN Tail(s) ELSE s

NoError == "None"

\* regular files that exist on disk
ExistingFiles == {<<"/in", "/test.gpx">>, <<"/in", "/test.jpg">>}

\* Path.exists, Path.is_dir, Path.is_file
path_exists(p) == p \in ExistingDirs \cup ExistingFiles
path_is_dir(p) == p \in ExistingDirs
path_is_file(p) == p \in ExistingFiles

\* The text fields that are parsed are sequences of one-character strings.
Digits == {"0", "1", "2", "3", "4", "5", "6", "7", "8", "9"}

DigitValue(c) ==
  CASE c = "0" -> 0 [] c = "1" -> 1 [] c = "2" -> 2 [] c = "3" -> 3
    [] c = "4" -> 4 [] c = "5" -> 5 [] c = "6" -> 6 [] c = "7" -> 7
    [] c = "8" -> 8 [] c = "9" -> 9

AllDigits(s) == \A i \in 1..Len(s) : s[i] \in Digits

\* int() of a sequence of decimal digits
RECURSIVE DecimalValue(_)
DecimalValue(s) ==
  IF Len(s) = 0 THEN 0
  ELSE 10 * DecimalValue(SubSeq(s, 1, Len(s) - 1)) + DigitValue(s[Len(s)])

IsLeapYear(y) == y % 4 = 0 /\ (y % 100 # 0 \/ y % 400 = 0)

DaysInMonth(y, m) ==
  IF m = 2 THEN (IF IsLeapYear(y) THEN 29 ELSE 28)
  ELSE IF m \in {4, 6, 9, 11} THEN 30 ELSE 31

\* datetime.date.fromisoformat returns (no ValueError), for YYYY-MM-DD
date_fromisoformat(s) ==
  /\ Len(s) = 10
  /\ s[5] = "-" /\ s[8] = "-"
  /\ AllDigits(SubSeq(s, 1, 4)) /\ AllDigits(SubSeq(s, 6, 7)) /\ AllDigits(SubSeq(s, 9, 10))
  /\ LET y == DecimalValue(SubSeq(s, 1, 4))
         m == DecimalValue(SubSeq(s, 6, 7))
         d == DecimalValue(SubSeq(s, 9, 10))
     IN  y >= 1 /\ m \in 1..12 /\ d >= 1 /\ d <= DaysInMonth(y, m)

\* datetime.time.fromisoformat returns (no ValueError), for HH, HH:MM and
\* HH:MM:SS
time_fromisoformat(s) ==
  /\ Len(s) \in {2, 5, 8}
  /\ AllDigits(SubSeq(s, 1, 2)) /\ DecimalValue(SubSeq(s, 1, 2)) <= 23
  /\ Len(s) >= 5 =>
       s[3] = ":" /\ AllDigits(SubSeq(s, 4, 5)) /\ DecimalValue(SubSeq(s, 4, 5)) <= 59
  /\ Len(s) = 8 =>
       s[6] = ":" /\ AllDigits(SubSeq(s, 7, 8)) /\ DecimalValue(SubSeq(s, 7, 8)) <= 59

\* re.match(r"^\d{4}-\d{4}-\d{4}-\d{3}[\dX]$", s) matches
orcid_match(s) ==
  /\ Len(s) = 19
  /\ \A i \in {5, 10, 15} : s[i] = "-"
  /\ \A i \in (1..18) \ {5, 10, 15} : s[i] \in Digits
  /\ s[19] \in Digits \cup {"X"}

\* float(s) returns (no ValueError), for an optional sign followed by digits
\* with at most one decimal point
float_parses(s) ==
  LET body == IF Len(s) > 0 /\ s[1] \in {"+", "-"} THEN Tail(s) ELSE s
  IN  /\ \A i \in 1..Len(body) : body[i] \in Digits \cup {"."}
      /\ Cardinality({i \in 1..Len(body) : body[i] = "."}) <= 1
      /\ \E i \in 1..Len(body) : body[i] \in Digits

validate_import_directory(import_dir) ==
  IF import_dir = <<>> THEN "Import directory is empty"
  ELSE IF ~path_exists(replace_file_url(import_dir))
       THEN "Import directory does not exist"
       ELSE IF ~path_is_dir(replace_file_url(import_dir))
            THEN "Import directory is not a directory"
            ELSE NoError

validate_gpx_file(gpx_fp) ==
  IF gpx_fp = <<>> THEN "GPX file path is empty"
  ELSE IF ~path_exists(replace_file_url(gpx_fp))
       THEN "GPX file does not exist"
       ELSE IF ~path_is_file(replace_file_url(gpx_fp))
            THEN "GPX file is not a file"
            ELSE NoError

\* src/user_input_model.py: the GPS photo checks take the field alone
legacy_validate_gps_photo_file(gps_photo_fp) ==
  IF gps_photo_fp = <<>> THEN "GPS photo file path is empty"
  ELSE IF ~path_exists(replace_file_url(gps_photo_fp))
       THEN "GPS photo file does not exist"
       ELSE IF ~path_is_file(replace_file_url(gps_photo_fp))
            THEN "GPS photo file is not a file"
            ELSE NoError

legacy_validate_gps_date(gps_date) ==
  IF gps_date = <<>> THEN "GPS Date field is empty"
  ELSE IF ~date_fromisoformat(gps_date)
       THEN "GPS Date field is not a valid date"
       ELSE NoError

legacy_validate_gps_time(gps_time) ==
  IF gps_time = <<>> THEN "GPS Time field is empty"
  ELSE IF ~time_fromisoformat(gps_time)
       THEN "GPS Time field is not a valid time"
       ELSE NoError

\* models/user_input_model.py: the GPS photo checks are skipped unless
\* gpsPhotoAvailable is set
validate_gps_photo_file(gps_photo_available, gps_photo_fp) ==
  IF ~gps_photo_available THEN NoError
  ELSE IF gps_photo_fp = <<>> THEN "GPS photo file path is empty"
  ELSE IF ~path_exists(replace_file_url(gps_photo_fp))
       THEN "GPS photo file does not exist"
       ELSE IF ~path_is_file(replace_file_url(gps_photo_fp))
            THEN "GPS photo file is not a file"
            ELSE NoError

validate_gps_date(gps_photo_available, gps_date) ==
  IF ~gps_photo_available THEN NoError
  ELSE IF gps_date = <<>> THEN "GPS Date field is empty"
  ELSE IF ~date_fromisoformat(gps_date)
       THEN "GPS Date field is not a valid date"
       ELSE NoError

validate_gps_time(gps_photo_available, gps_time) ==
  IF ~gps_photo_available THEN NoError
  ELSE IF gps_time = <<>> THEN "GPS Time field is empty"
  ELSE IF ~time_fromisoformat(gps_time)
       THEN "GPS Time field is not a valid time"
       ELSE NoError

validate_gps_timezone(gps_tz) ==
  IF gps_tz < 0 THEN "GPS Timezone field is empty" ELSE NoError

validate_camera_timezone(camera_tz) ==
  IF camera_tz < 0 THEN "Camera Timezone field is empty" ELSE NoError

validate_output_directory(output_dir) ==
  IF output_dir = <<>> THEN "Export directory is empty"
  ELSE IF ~path_exists(replace_file_url(output_dir))
       THEN "Export directory does not exist"
       ELSE IF ~path_is_dir(replace_file_url(output_dir))
            THEN "Export directory is not a directory"
            ELSE NoError

\* _validate_pi_name, _validate_collectors_name, _validate_organisation,
\* _validate_license and the text checks of the iFDO section: the field
\* must not be empty when its section is enabled
validate_not_empty(enable, text, message) ==
  IF enable /\ text = <<>> THEN message ELSE NoError

\* _validate_pi_orcid, _validate_collectors_orcid
validate_orcid(attr_enable, orcid, message) ==
  IF attr_enable /\ orcid # <<>> /\ ~orcid_match(orcid) THEN message ELSE NoError

validate_distance_above_ground(ifdo_enable, distance) ==
  IF ~ifdo_enable THEN NoError
  ELSE IF distance = <<>> THEN "Distance above ground is empty"
  ELSE IF ~float_parses(distance) THEN "Distance above ground is not a number"
       ELSE NoError

validate_input_path_not_output_path(input_path, output_path) ==
  IF input_path = output_path
  THEN "Input directory and output directory cannot be the same"
  ELSE NoError

\* ---------------------------------------------------- the form's contents
\* UserInputModel.__init__: the constructor defaults
UserInputModel ==
  [importDirectory |-> <<>>, gpxFilepath |-> <<>>, gpsPhotoAvailable |-> FALSE,
   gpsPhotoFilepath |-> <<>>, gpsDate |-> <<>>, gpsTime |-> <<>>,
   gpsTimezoneIndex |-> 0, cameraTimezoneIndex |-> 0, exportDirectory |-> <<>>,
   ifdoEnable |-> FALSE, imageSetName |-> <<>>, imageContext |-> <<>>,
   projectName |-> <<>>, eventName |-> <<>>, piName |-> <<>>, piORCID |-> <<>>,
   collectorName |-> <<>>, collectorORCID |-> <<>>, organisation |-> <<>>,
   license |-> <<"CC BY 4.0">>, distanceAboveGround |-> <<>>,
   imageAbstract |-> <<>>, exportKML |-> FALSE, attributionExport |-> FALSE]

Date_2023_06_16 == <<"2", "0", "2", "3", "-", "0", "6", "-", "1", "6">>
Time_08_37_36 == <<"0", "8", ":", "3", "7", ":", "3", "6">>
Orcid_0000_0002_1825_009X ==
  <<"0", "0", "0", "0", "-", "0", "0", "0", "2", "-",
    "1", "8", "2", "5", "-", "0", "0", "9", "X">>

\* tests/test_user_input_model.py: the model the tests start from
valid_user_input_model ==
  [UserInputModel EXCEPT
     !.importDirectory = <<FileUrl, "/in">>,
     !.gpxFilepath = <<FileUrl, "/in", "/test.gpx">>,
     !.gpsPhotoFilepath = <<FileUrl, "/in", "/test.jpg">>,
     !.gpsDate = Date_2023_06_16,
     !.gpsTime = Time_08_37_36,
     !.gpsTimezoneIndex = 0,
     !.exportDirectory = <<FileUrl, "/out">>]

\* a form a user has filled in completely, every section enabled
CompletedForm ==
  [valid_user_input_model EXCEPT
     !.gpsPhotoAvailable = TRUE, !.exportKML = TRUE,
     !.attributionExport = TRUE, !.piName = <<"name">>,
     !.piORCID = Orcid_0000_0002_1825_009X, !.collectorName = <<"name">>,
     !.collectorORCID = Orcid_0000_0002_1825_009X, !.organisation = <<"name">>,
     !.ifdoEnable = TRUE, !.imageSetName = <<"name">>, !.imageContext = <<"name">>,
     !.projectName = <<"name">>, !.eventName = <<"name">>,
     !.distanceAboveGround = <<"1", ".", "5">>, !.imageAbstract = <<"name">>]

StartForms == {UserInputModel, valid_user_input_model, CompletedForm}

\* the values a field of the form is set to
DirectoryInputs ==
  {<<>>, <<"/in">>, <<FileUrl, "/in">>, <<"/out">>, <<FileUrl, "/out">>,
   <<FileUrl, "/missing">>, <<FileUrl, "/in", "/test.jpg">>}
FileInputs ==
  {<<>>, <<"/in", "/test.gpx">>, <<FileUrl, "/in", "/test.gpx">>,
   <<"/in", "/test.jpg">>, <<FileUrl, "/in", "/test.jpg">>,
   <<FileUrl, "/missing">>, <<FileUrl, "/in">>}
DateInputs ==
  {<<>>, Date_2023_06_16, <<"2", "0", "2", "3", "-", "6", "-", "1">>,
   <<"2", "0", "2", "3", "-", "0", "2", "-", "3", "0">>}
TimeInputs ==
  {<<>>, Time_08_37_36, <<"0", "8", ":", "3", "7">>, <<"8", ":", "3", "7">>,
   <<"2", "5", ":", "0", "0", ":", "0", "0">>}
TextInputs == {<<>>, <<"name">>}
OrcidInputs ==
  {<<>>, Orcid_0000_0002_1825_009X, <<"0", "0", "0", "0", "-", "0", "0", "0", "2">>}
NumberInputs == {<<>>, <<"1", ".", "5">>, <<"-", "2">>, <<"a", "b", "c">>}
TimezoneIndexInputs == {-1, 0, 15}

FieldInputs ==
  [importDirectory |-> DirectoryInputs, gpxFilepath |-> FileInputs,
   gpsPhotoAvailable |-> BOOLEAN, gpsPhotoFilepath |-> FileInputs,
   gpsDate |-> DateInputs, gpsTime |-> TimeInputs,
   gpsTimezoneIndex |-> TimezoneIndexInputs,
   cameraTimezoneIndex |-> TimezoneIndexInputs,
   exportDirectory |-> DirectoryInputs, ifdoEnable |-> BOOLEAN,
   imageSetName |-> TextInputs, imageContext |-> TextInputs,
   projectName |-> TextInputs, eventName |-> TextInputs, piName |-> TextInputs,
   piORCID |-> OrcidInputs, collectorName |-> TextInputs,
   collectorORCID |-> OrcidInputs, organisation |-> TextInputs,
   license |-> {<<>>, <<"CC BY 4.0">>}, distanceAboveGround |-> NumberInputs,
   imageAbstract |-> TextInputs, exportKML |-> BOOLEAN,
   attributionExport |-> BOOLEAN]

\* ------------------------------------------------ UserInputModelValidator
\* models/user_input_model.py, validate: main_validators, each validator
\* applied to its arguments
main_validators(model) ==
  [_validate_import_directory |-> validate_import_directory(model.importDirectory),
   _validate_gpx_file |-> validate_gpx_file(model.gpxFilepath),
   _validate_gps_photo_available |-> NoError,
   _validate_gps_photo_file |->
     validate_gps_photo_file(model.gpsPhotoAvailable, model.gpsPhotoFilepath),
   _validate_gps_date |-> validate_gps_date(model.gpsPhotoAvailable, model.gpsDate),
   _validate_gps_time |-> validate_gps_time(model.gpsPhotoAvailable, model.gpsTime),
   _validate_gps_timezone |-> validate_gps_timezone(model.gpsTimezoneIndex),
   _validate_camera_timezone |-> validate_camera_timezone(model.cameraTimezoneIndex),
   _validate_output_directory |-> validate_output_directory(model.exportDirectory),
   _validate_export_kml |-> NoError,
   _validate_attribution_export |-> NoError,
   _validate_pi_name |->
     validate_not_empty(model.attributionExport, model.piName, "PI name is empty"),
   _validate_pi_orcid |->
     validate_orcid(model.attributionExport, model.piORCID,
                    "Principal Investigator ORCID is not in the correct format"),
   _validate_collectors_name |->
     validate_not_empty(model.attributionExport, model.collectorName,
                        "Collector's name is empty"),
   _validate_collectors_orcid |->
     validate_orcid(model.attributionExport, model.collectorORCID,
                    "Collector's ORCID is not in the correct format"),
   _validate_organisation |->
     validate_not_empty(model.attributionExport, model.organisation,
                        "Copyright owner is empty"),
   _validate_license |->
     validate_not_empty(model.attributionExport, model.license, "License is empty"),
   _validate_ifdo_enable |-> NoError,
   _validate_image_set_name |->
     validate_not_empty(model.ifdoEnable, model.imageSetName, "Image set name is empty"),
   _validate_image_context |->
     validate_not_empty(model.ifdoEnable, model.imageContext, "Image context is empty"),
   _validate_project_name |->
     validate_not_empty(model.ifdoEnable, model.projectName, "Project name is empty"),
   _validate_event_name |->
     validate_not_empty(model.ifdoEnable, model.eventName, "Event name is empty"),
   _validate_distance_above_ground |->
     validate_distance_above_ground(model.ifdoEnable, model.distanceAboveGround),
   _validate_image_abstract |->
     validate_not_empty(model.ifdoEnable, model.imageAbstract, "Image abstract is empty"),
   _validate_input_path_not_output_path |->
     validate_input_path_not_output_path(model.importDirectory, model.exportDirectory)]

\* src/user_input_model.py, validate: main_validators
legacy_main_validators(model) ==
  [_validate_import_directory |-> validate_import_directory(model.importDirectory),
   _validate_gpx_file |-> validate_gpx_file(model.gpxFilepath),
   _validate_gps_photo_file |-> legacy_validate_gps_photo_file(model.gpsPhotoFilepath),
   _validate_gps_date |-> legacy_validate_gps_date(model.gpsDate),
   _validate_gps_time |-> legacy_validate_gps_time(model.gpsTime),
   _validate_gps_timezone |-> validate_gps_timezone(model.gpsTimezoneIndex),
   _validate_output_directory |-> validate_output_directory(model.exportDirectory),
   _validate_ifdo_enable |-> NoError]

\* the two revisions of the validator
Revisions == {"models", "legacy"}

validators_of(revision, model) ==
  IF revision = "models" THEN main_validators(model) ELSE legacy_main_validators(model)

\* errors = list({x(*y) for x, y in main_validators.items()}), as a set
errors_of(checks) == {checks[k] : k \in DOMAIN checks}

too_many_results_lenient(errors) == Cardinality(errors) > 2

\* if len(errors) > 1
too_many_results(errors) == Cardinality(errors) > 1

\* UserInputModelValidator.validate: the value returned and the
\* latest_errors it leaves (the list's elements; their order is the
\* iteration order of a set)
validator_validate(revision, model) ==
  LET errors == errors_of(validators_of(revision, model))
  IN  IF too_many_results(errors)
      THEN [ret |-> FALSE, latest_errors |-> errors \ {NoError}]
      ELSE [ret |-> TRUE, latest_errors |-> {}]

\* the form of a batch: the fields the batch does not vary are filled in
\* as in the tests
BatchForm(imp, exp) ==
  [valid_user_input_model EXCEPT !.importDirectory = imp, !.exportDirectory = exp]

\* the set built by validate for the form of a batch
validate_results(imp, exp) == errors_of(main_validators(BatchForm(imp, exp)))

\* UserInputModelValidator.validate
validate(imp, exp) == validator_validate("models", BatchForm(imp, exp)).ret

\* UserInputModelValidator.latest_errors after validate
latest_errors(imp, exp) ==
  validator_validate("models", BatchForm(imp, exp)).latest_errors

\* ------------------------------------------------------------ GUI thread
\* FeedbackModel.addFeedbackLine
addFeedbackLine(text, new_line) == Append(text, new_line)

\* Python float arithmetic, for updateProgress.
\* number of significand bits of a Python float (IEEE 754 binary64)
SignificandBits == 53

\* the binary digits of a natural number, most significant first
RECURSIVE to_bits(_)
to_bits(n) == IF n = 0 THEN <<>> ELSE Append(to_bits(n \div 2), n % 2)

\* the natural number with the given binary digits
RECURSIVE from_bits(_)
from_bits(b) ==
  IF b = <<>> THEN 0 ELSE 2 * from_bits(SubSeq(b, 1, Len(b) - 1)) + b[Len(b)]

\* binary addition of two digit sequences
RECURSIVE add_bits(_, _, _)
add_bits(a, b, carry) ==
  IF a = <<>> /\ b = <<>> THEN (IF carry = 1 THEN <<1>> ELSE <<>>)
  ELSE LET x == IF a = <<>> THEN 0 ELSE a[Len(a)]
           y == IF b = <<>> THEN 0 ELSE b[Len(b)]
           s == x + y + carry
           front_a == IF a = <<>> THEN a ELSE SubSeq(a, 1, Len(a) - 1)
           front_b == IF b = <<>> THEN b ELSE SubSeq(b, 1, Len(b) - 1)
       IN  IF s < 2 THEN Append(add_bits(front_a, front_b, 0), s)
           ELSE Append(add_bits(front_a, front_b, 1), s - 2)

zeros(n) == [i \in 1..n |-> 0]

\* A positive float is its significand digits and the exponent of the last
\* digit: the value is from_bits(bits) * 2^exp.
Float(bits, exp) == [bits |-> bits, exp |-> exp]

\* rounding to nearest, ties to even, of the exact value bits * 2^exp (plus
\* a nonzero tail below the last digit when sticky) to SignificandBits digits
round_half_even(bits, exp, sticky) ==
  IF Len(bits) <= SignificandBits THEN Float(bits, exp)
  ELSE LET keep  == SubSeq(bits, 1, SignificandBits)
           guard == bits[SignificandBits + 1]
           tail  == \E i \in (SignificandBits + 2)..Len(bits) : bits[i] = 1
           e     == exp + (Len(bits) - SignificandBits)
           up    == guard = 1 /\ (sticky \/ tail \/ keep[SignificandBits] = 1)
           more  == add_bits(keep, <<1>>, 0)
       IN  IF ~up THEN Float(keep, e)
           ELSE IF Len(more) > SignificandBits
           THEN Float(SubSeq(more, 1, SignificandBits), e + 1)
           ELSE Float(more, e)

\* the digits of a / b by long division, until one digit more than the
\* significand holds; r is the remainder so far
RECURSIVE long_division(_, _, _, _)
long_division(bits, exp, r, b) ==
  IF Len(bits) > SignificandBits THEN [bits |-> bits, exp |-> exp, sticky |-> r # 0]
  ELSE LET digit == (2 * r) \div b
       IN  long_division(IF bits = <<>> /\ digit = 0 THEN bits ELSE Append(bits, digit),
                         exp - 1, (2 * r) % b, b)

\* a / b for integers a > 0, b > 0: the correctly rounded quotient
truediv(a, b) ==
  LET q == long_division(to_bits(a \div b), 0, a % b, b)
  IN  round_half_even(q.bits, q.exp, q.sticky)

\* x * 100 for a float x: 100 = 64 + 32 + 4
mul_100(x) ==
  LET exact == add_bits(x.bits \o zeros(6),
                        add_bits(x.bits \o zeros(5), x.bits \o zeros(2), 0), 0)
  IN  round_half_even(exact, x.exp, FALSE)

\* int(x) for a positive float x: the digits above the binary point
float_to_int(x) ==
  IF x.exp >= 0 THEN from_bits(x.bits \o zeros(x.exp))
  ELSE IF Len(x.bits) + x.exp <= 0 THEN 0
  ELSE from_bits(SubSeq(x.bits, 1, Len(x.bits) + x.exp))

\* int((current_value / max_value) * 100) in float arithmetic
int_percentage(current_value, max_value) ==
  IF current_value = 0 THEN 0
  ELSE float_to_int(mul_100(truediv(current_value, max_value)))

\* int_percentage of the counts a batch of at most MaxImages images emits,
\* computed once
batch_percentages ==
  [current_value \in 0..(MaxImages + 1), max_value \in 1..(MaxImages + 1) |->
     int_percentage(current_value, max_value)]

\* FeedbackModel.updateProgress: the value assigned to self.progress
updateProgress(current_value, max_value) ==
  IF max_value > 0
  THEN IF <<current_value, max_value>> \in DOMAIN batch_percentages
       THEN batch_percentages[current_value, max_value]
       ELSE int_percentage(current_value, max_value)
  ELSE 0

\* MainWindow.setProgress: values outside 0..100 are clamped
setProgress(current_progress) ==
  IF current_progress < 0 THEN 0
  ELSE IF current_progress > 100 THEN 100 ELSE current_progress

\* a set of lines in some order (iteration order of a Python list built
\* from a set)
Orderings(S) == {s \in SeqsUpTo(S, Cardinality(S)) : Len(s) = Cardinality(S) /\ Range(s) = S}

\* ------------------------------------------------------------ start states
\* no batch has been started: no worker, no thread, an empty feedback log
NoBatch ==
  /\ config = NoConfig
  /\ pc = "idle"
  /\ image_list = <<>>
  /\ idx = 0
  /\ progress_emits = <<>>
  /\ error_msgs = <<>>
  /\ logged = <<>>
  /\ finished_emits = 0
  /\ export_files = {}
  /\ tagged_files = {}
  /\ ifdo_added = <<>>
  /\ kml_added = <<>>
  /\ ifdo_exports = 0
  /\ kml_saves = 0
  /\ thread = "none"
  /\ mainQueue = <<>>
  /\ feedbackText = <<>>
  /\ progress = 0
  /\ progress_bar = 0

\* the batch fields of a form that is not used for a batch
NoBatchInputs ==
  /\ variant = "controller"
  /\ importDirectory = <<>>
  /\ exportDirectory = <<>>
  /\ ifdoEnable = FALSE
  /\ exportKML = FALSE

\* ------------------------------------------- the form and its validator
\* UserInputModelValidator.__init__; model, called and prev_failed record
\* the argument of the last validate call, whether there was one, and
\* whether the call before it returned False
NewValidator(revision) ==
  [revision |-> revision, latest_errors |-> {}, called |-> FALSE, ret |-> TRUE,
   model |-> UserInputModel, prev_failed |-> FALSE]

FormIdle ==
  /\ form = UserInputModel
  /\ edited = FALSE
  /\ validator = NewValidator("models")
  /\ clearForm_result = "none"

\* a property setter of UserInputModel: the field takes the value (a
\* setter called with the field's value changes nothing)
setField ==
  /\ ~edited
  /\ \E f \in DOMAIN FieldInputs : \E v \in FieldInputs[f] :
       /\ form[f] # v
       /\ form' = [form EXCEPT ![f] = v]
  /\ edited' = TRUE
  /\ UNCHANGED <<validator, clearForm_result>>
  /\ UNCHANGED <<batchInputVars, workerVars, guiVars, componentVars, timezoneVars, taggerVars, imagesVars>>

\* a new model replaces the form: UserInputModel() with the fields a test
\* or a user then fills in
new_model ==
  /\ form' \in StartForms
  /\ edited' = FALSE
  /\ clearForm_result' = "none"
  /\ UNCHANGED validator
  /\ UNCHANGED <<batchInputVars, workerVars, guiVars, componentVars, timezoneVars, taggerVars, imagesVars>>

\* validator.validate(model)
validator_validate_call ==
  /\ LET r == validator_validate(validator.revision, form)
     IN  validator' = [validator EXCEPT
                         !.latest_errors = r.latest_errors,
                         !.ret = r.ret,
                         !.called = TRUE,
                         !.model = form,
                         !.prev_failed = validator.called /\ ~validator.ret]
  /\ UNCHANGED <<form, edited, clearForm_result>>
  /\ UNCHANGED <<batchInputVars, workerVars, guiVars, componentVars, timezoneVars, taggerVars, imagesVars>>

\* UserInputModel.clearForm (models/user_input_model.py): its first
\* statement, self.importDirectory(""), reads the property, which yields
\* the field's str value, and calls that value: TypeError.  No statement
\* after it runs and no field is assigned.
clearForm ==
  /\ clearForm_result' = "TypeError"
  /\ UNCHANGED <<form, edited, validator>>
  /\ UNCHANGED <<batchInputVars, workerVars, guiVars, componentVars, timezoneVars, taggerVars, imagesVars>>

FormInit ==
  /\ form \in StartForms
  /\ edited = FALSE
  /\ validator \in {NewValidator(r) : r \in Revisions}
  /\ clearForm_result = "none"

FormNext ==
  \/ setField
  \/ new_model
  \/ validator_validate_call
  \/ clearForm

\* ------------------------------------------- Timezone, TimezoneWorkaround
\* an entry of the timezone list, 'UTC' sign HH ':' MM, as characters
TimezoneName(sign, h1, h2, m1, m2) == <<"U", "T", "C", sign, h1, h2, ":", m1, m2>>

TIMEZONES ==
  <<TimezoneName("-", "1", "2", "0", "0"), TimezoneName("-", "1", "1", "0", "0"),
    TimezoneName("-", "1", "0", "0", "0"), TimezoneName("-", "0", "9", "3", "0"),
    TimezoneName("-", "0", "9", "0", "0"), TimezoneName("-", "0", "8", "0", "0"),
    TimezoneName("-", "0", "7", "0", "0"), TimezoneName("-", "0", "6", "0", "0"),
    TimezoneName("-", "0", "5", "0", "0"), TimezoneName("-", "0", "4", "0", "0"),
    TimezoneName("-", "0", "3", "3", "0"), TimezoneName("-", "0", "3", "0", "0"),
    TimezoneName("-", "0", "2", "3", "0"), TimezoneName("-", "0", "2", "0", "0"),
    TimezoneName("-", "0", "1", "0", "0"), TimezoneName("+", "0", "0", "0", "0"),
    TimezoneName("+", "0", "1", "0", "0"), TimezoneName("+", "0", "2", "0", "0"),
    TimezoneName("+", "0", "3", "0", "0"), TimezoneName("+", "0", "3", "3", "0"),
    TimezoneName("+", "0", "4", "0", "0"), TimezoneName("+", "0", "4", "3", "0"),
    TimezoneName("+", "0", "5", "0", "0"), TimezoneName("+", "0", "5", "3", "0"),
    TimezoneName("+", "0", "5", "4", "5"), TimezoneName("+", "0", "6", "0", "0"),
    TimezoneName("+", "0", "6", "3", "0"), TimezoneName("+", "0", "7", "0", "0"),
    TimezoneName("+", "0", "8", "0", "0"), TimezoneName("+", "0", "8", "4", "5"),
    TimezoneName("+", "0", "9", "0", "0"), TimezoneName("+", "0", "9", "3", "0"),
    TimezoneName("+", "1", "0", "0", "0"), TimezoneName("+", "1", "0", "3", "0"),
    TimezoneName("+", "1", "1", "0", "0"), TimezoneName("+", "1", "2", "0", "0"),
    TimezoneName("+", "1", "2", "4", "5"), TimezoneName("+", "1", "3", "0", "0"),
    TimezoneName("+", "1", "3", "4", "5"), TimezoneName("+", "1", "4", "0", "0")>>

\* name.replace('UTC', ''), for a name that starts with 'UTC'
replace_UTC(name) ==
  IF Len(name) >= 3 /\ SubSeq(name, 1, 3) = <<"U", "T", "C">>
  THEN SubSeq(name, 4, Len(name))
  ELSE name

\* str.split(':') of a string with one colon
split_colon(s) ==
  LET at == CHOOSE i \in 1..Len(s) : s[i] = ":"
  IN  <<SubSeq(s, 1, at - 1), SubSeq(s, at + 1, Len(s))>>

\* int() of an optionally signed decimal string
int(s) ==
  IF s[1] = "-" THEN 0 - DecimalValue(Tail(s))
  ELSE IF s[1] = "+" THEN DecimalValue(Tail(s))
  ELSE DecimalValue(s)

\* timedelta(hours=h, minutes=m), in minutes
timedelta(hours, minutes) == 60 * hours + minutes

\* Timezone.__init__ and TimezoneWorkaround.__init__ (the same statements)
Timezone(class, name) ==
  LET time == split_colon(replace_UTC(name))
  IN  [class |-> class, tzname |-> name,
       utcoffset |-> timedelta(int(time[1]), int(time[2])),
       dst |-> timedelta(0, 0)]

TimezoneClasses == {"Timezone", "TimezoneWorkaround"}

\* the datetime arguments utcoffset and dst are asked with
DateTimes == {"None", "2023-06-16 08:37:36", "2024-01-01 00:00:00"}

NoTimezone == [class |-> "", tzname |-> <<>>, utcoffset |-> 0, dst |-> 0]
NoQuery == [dt |-> "", utcoffset |-> 0, dst |-> 0]

TimezoneIdle ==
  /\ tz = NoTimezone
  /\ tz_query = NoQuery

\* tzinfo=Timezone(self._config.gpsTimezoneOptions[index]), for any entry
Timezone_init ==
  /\ \E class \in TimezoneClasses : \E i \in 1..Len(TIMEZONES) :
       tz' = Timezone(class, TIMEZONES[i])
  /\ tz_query' = NoQuery
  /\ UNCHANGED <<batchInputVars, workerVars, guiVars, componentVars, formVars, taggerVars, imagesVars>>

\* utcoffset(dt) and dst(dt) of the instance
Timezone_utcoffset ==
  /\ tz # NoTimezone
  /\ \E dt \in DateTimes :
       tz_query' = [dt |-> dt, utcoffset |-> tz.utcoffset, dst |-> tz.dst]
  /\ UNCHANGED <<batchInputVars, workerVars, guiVars, componentVars, formVars, taggerVars, imagesVars>>
  /\ UNCHANGED tz

TimezoneNext ==
  \/ Timezone_init
  \/ Timezone_utcoffset

\* --------------------------------------- the tagging library (geotag_pt)
\* The library is a dependency whose source is not part of the repository;
\* this section follows its contract: Track Store, Clock Offset Resolver,
\* Position Interpolator and Tagger.  Timestamps are seconds.

\* largest number of fixes of a track
MaxFixes == 3

\* a wall-clock time of the day, in seconds
HMS(h, m, s) == 3600 * h + 60 * m + s

\* GPSFix
Fix(timestamp, lat, lon, ele) ==
  [timestamp |-> timestamp, lat |-> lat, lon |-> lon, ele |-> ele]

FixTimes == {HMS(10, 0, 0), HMS(10, 0, 30), HMS(10, 1, 0)}

Fixes ==
  {Fix(t, 0, 0, 0) : t \in FixTimes} \cup {Fix(t, 1, 1, 10) : t \in FixTimes}
  \cup {Fix(t, 2, 0 - 1, 4) : t \in FixTimes}

\* Track: a non-empty sequence of fixes in time order
Tracks ==
  {t \in SeqsUpTo(Fixes, MaxFixes) :
     /\ Len(t) >= 1
     /\ \A i \in 1..(Len(t) - 1) : t[i].timestamp <= t[i + 1].timestamp}

\* bounds(track): the first and the last timestamp
bounds(track) ==
  [earliest |-> track[1].timestamp, latest |-> track[Len(track)].timestamp]

\* TimezoneCorrection: a fixed UTC offset, in seconds
TimezoneCorrections == {0, HMS(10, 0, 0)}

\* fromReferencePhoto(photoCaptureTimestamp, knownTrueTimestamp,
\* timezoneCorrection)
fromReferencePhoto_unsigned(photoCaptureTimestamp, knownTrueTimestamp, timezoneCorrection) ==
  [drift |-> IF photoCaptureTimestamp >= knownTrueTimestamp
             THEN photoCaptureTimestamp - knownTrueTimestamp
             ELSE knownTrueTimestamp - photoCaptureTimestamp,
   timezoneCorrection |-> timezoneCorrection]

fromReferencePhoto(photoCaptureTimestamp, knownTrueTimestamp, timezoneCorrection) ==
  [drift |-> photoCaptureTimestamp - knownTrueTimestamp,
   timezoneCorrection |-> timezoneCorrection]

\* fromDeclaredOffset(timezoneCorrection): zero drift
fromDeclaredOffset(timezoneCorrection) ==
  [drift |-> 0, timezoneCorrection |-> timezoneCorrection]

\* the reference photos: embedded capture time and the time read off the
\* GPS unit
ReferencePhotoTimes == {HMS(14, 5, 10), HMS(10, 0, 0), HMS(4, 5, 0)}
KnownTrueTimes == {HMS(4, 5, 0), HMS(10, 0, 0)}

\* a quotient n / d that is not evaluated: the division is by d
Quotient(n, d) == [n |-> n, d |-> d]

Position(lat, lon, ele) == [lat |-> lat, lon |-> lon, ele |-> ele]

PositionOf(fix) ==
  Position(Quotient(fix.lat, 1), Quotient(fix.lon, 1), Quotient(fix.ele, 1))

\* value = before.value + t * (after.value - before.value) with
\* t = (ts - before.timestamp) / (after.timestamp - before.timestamp),
\* over the common denominator
Lerp(before_value, after_value, before_ts, after_ts, ts) ==
  Quotient(before_value * (after_ts - before_ts)
             + (ts - before_ts) * (after_value - before_value),
           after_ts - before_ts)

LerpPosition(before, after, ts) ==
  Position(Lerp(before.lat, after.lat, before.timestamp, after.timestamp, ts),
           Lerp(before.lon, after.lon, before.timestamp, after.timestamp, ts),
           Lerp(before.ele, after.ele, before.timestamp, after.timestamp, ts))

NoPosition == Position(Quotient(0, 1), Quotient(0, 1), Quotient(0, 1))

\* GeoTagResult
Tagged(position) == [status |-> "Tagged", position |-> position]
Skipped(reason) == [status |-> reason, position |-> NoPosition]

\* interpolate(track, correctedTimestamp): the results it may return (a
\* timestamp shared by several fixes leaves the fix open)
interpolate_always_divides(track, ts) ==
  IF ts < bounds(track).earliest \/ ts > bounds(track).latest
  THEN {Skipped("OUT_OF_TRACK_RANGE")}
  ELSE IF Len(track) = 1 THEN {Tagged(PositionOf(track[1]))}
  ELSE {Tagged(LerpPosition(track[i], track[i + 1], ts)) :
          i \in {j \in 1..(Len(track) - 1) :
                   track[j].timestamp <= ts /\ ts <= track[j + 1].timestamp}}

interpolate(track, ts) ==
  IF ts < bounds(track).earliest \/ ts > bounds(track).latest
  THEN {Skipped("OUT_OF_TRACK_RANGE")}
  ELSE IF \E i \in 1..Len(track) : track[i].timestamp = ts
  THEN {Tagged(PositionOf(track[i])) :
          i \in {j \in 1..Len(track) : track[j].timestamp = ts}}
  ELSE {Tagged(LerpPosition(track[i], track[i + 1], ts)) :
          i \in {j \in 1..(Len(track) - 1) :
                   track[j].timestamp < ts /\ ts < track[j + 1].timestamp}}

\* the metadata of an image: whether it carries a capture timestamp
Exif(has_time, time) == [has_time |-> has_time, time |-> time]

EmbeddedTimes ==
  {HMS(9, 59, 59), HMS(10, 0, 0), HMS(10, 0, 15), HMS(10, 0, 30), HMS(10, 1, 0),
   HMS(10, 1, 1), HMS(14, 5, 10), HMS(14, 10, 10), HMS(20, 0, 40),
   HMS(20, 0, 25), HMS(20, 1, 10), HMS(20, 1, 11)}

Exifs == {Exif(TRUE, t) : t \in EmbeddedTimes} \cup {Exif(FALSE, 0)}

\* tagImage step 2: correctedTimestamp = embeddedCaptureTimestamp - drift
correctedTimestamp(clock_offset, embedded) == embedded - clock_offset.drift

\* tagImage step 2, then: the timezone correction moves the corrected
\* timestamp into the frame of the track
trackTimestamp(clock_offset, embedded) ==
  correctedTimestamp(clock_offset, embedded) - clock_offset.timezoneCorrection

\* tagImage(embeddedCaptureTimestamp): the results it may return
tagImage(tg, exif) ==
  IF ~exif.has_time THEN {Skipped("MISSING_TIMESTAMP")}
  ELSE interpolate(tg.track, trackTimestamp(tg.clock_offset, exif.time))

\* generate_gps_tags: the exception a skip is signalled with
exception_of(result) ==
  IF result.status = "OUT_OF_TRACK_RANGE" THEN "IndexError"
  ELSE IF result.status = "MISSING_TIMESTAMP" THEN "AssertionError"
  ELSE "none"

\* _process_image, the try statement around generate_gps_tags: what
\* becomes of the image for the exception raised
generate_gps_tags_except_swapped(exception) ==
  IF exception = "IndexError" THEN "no_time"
  ELSE IF exception = "AssertionError" THEN "out_of_range"
  ELSE "ok"

generate_gps_tags_except(exception) ==
  IF exception = "IndexError" THEN "out_of_range"
  ELSE IF exception = "AssertionError" THEN "no_time"
  ELSE "ok"

\* the reference photo a tagger was constructed with
NoReference == [used |-> FALSE, photo |-> 0, known |-> 0]

\* no tagger has been constructed
NoTagger == [track |-> <<>>, clock_offset |-> fromDeclaredOffset(0),
             reference |-> NoReference]

NoTagCall == [called |-> FALSE, exif |-> Exif(FALSE, 0), corrected |-> 0,
              result |-> Skipped(""), fate |-> ""]

TaggerIdle ==
  /\ tagger = NoTagger
  /\ tag_call = NoTagCall

\* PhotoTransectGPSTagger.from_files with a reference photo
from_files_reference_photo ==
  /\ tagger = NoTagger
  /\ \E track \in Tracks : \E photo \in ReferencePhotoTimes :
     \E true_time \in KnownTrueTimes : \E c \in TimezoneCorrections :
       tagger' = [track |-> track,
                  clock_offset |-> fromReferencePhoto(photo, true_time, c),
                  reference |-> [used |-> TRUE, photo |-> photo, known |-> true_time]]
  /\ tag_call' = NoTagCall
  /\ UNCHANGED <<batchInputVars, workerVars, guiVars, componentVars, formVars, timezoneVars, imagesVars>>

\* PhotoTransectGPSTagger.from_files without a reference photo
from_files_declared_offset ==
  /\ tagger = NoTagger
  /\ \E track \in Tracks : \E c \in TimezoneCorrections :
       tagger' = [track |-> track, clock_offset |-> fromDeclaredOffset(c),
                  reference |-> NoReference]
  /\ tag_call' = NoTagCall
  /\ UNCHANGED <<batchInputVars, workerVars, guiVars, componentVars, formVars, timezoneVars, imagesVars>>

\* tagger.generate_gps_tags(exif_data) inside _process_image
generate_gps_tags ==
  /\ tagger # NoTagger
  /\ \E exif \in Exifs : \E result \in tagImage(tagger, exif) :
       tag_call' = [called |-> TRUE, exif |-> exif,
                    corrected |-> IF exif.has_time
                                  THEN correctedTimestamp(tagger.clock_offset, exif.time)
                                  ELSE 0,
                    result |-> result,
                    fate |-> generate_gps_tags_except(exception_of(result))]
  /\ UNCHANGED <<batchInputVars, workerVars, guiVars, componentVars, formVars, timezoneVars, imagesVars>>
  /\ UNCHANGED tagger

TaggerNext ==
  \/ from_files_reference_photo
  \/ from_files_declared_offset
  \/ generate_gps_tags

\* ------------------------------------------- _get_images and countImages
\* largest number of paths under the listed directory
MaxEntries == 2

\* file names, as characters
EntryNames ==
  {<<"a", ".", "j", "p", "g">>, <<"b", ".", "J", "P", "G">>,
   <<"c", ".", "J", "p", "e", "g">>, <<"d", ".", "p", "n", "g">>,
   <<"e", ".", "g", "i", "f">>, <<"f", ".", "j", "p", "g", ".", "b", "a", "k">>,
   <<".", "j", "p", "g">>, <<"j", "p", "g">>}

\* a path under the listed directory: its last component, whether it lies
\* in the directory itself or in a subdirectory, and what it is
Entries == [name : EntryNames, nested : BOOLEAN, kind : {"file", "dir"}]

\* Path.suffix: the last component from its last dot on; none when there is
\* no dot or the only dot leads the name
suffix(name) ==
  LET dots == {i \in 2..Len(name) : name[i] = "."}
  IN  IF dots = {} THEN <<>>
      ELSE LET last == CHOOSE i \in dots : \A j \in dots : j <= i
           IN  IF last = Len(name) THEN <<>> ELSE SubSeq(name, last, Len(name))

\* str.lower, for the characters of the names
lower_char(c) ==
  CASE c = "J" -> "j" [] c = "P" -> "p" [] c = "G" -> "g" [] c = "E" -> "e"
    [] c = "N" -> "n" [] OTHER -> c

lower(s) == [i \in 1..Len(s) |-> lower_char(s[i])]

extensions ==
  {<<".", "j", "p", "g">>, <<".", "j", "p", "e", "g">>, <<".", "p", "n", "g">>}

\* _get_images(directory): the elements of the list it returns
get_images_case_sensitive(d) ==
  IF d.root # "dir" THEN {}
  ELSE {file \in d.entries : suffix(file.name) \in extensions}

_get_images(d) ==
  IF d.root # "dir" THEN {}
  ELSE {file \in d.entries : lower(suffix(file.name)) \in extensions}

\* MainController.countImages (ibenthos_pt_ifdo_gui/main.py)
countImages(d) ==
  IF d.root # "dir" THEN 0
  ELSE Cardinality({file \in d.entries : lower(suffix(file.name)) \in extensions})

NoListing == [called |-> FALSE, images |-> {}, count |-> 0]

ImagesIdle ==
  /\ disk = [root |-> "missing", entries |-> {}]
  /\ listing = NoListing

\* the directory is created, or replaced by a regular file, or removed
\* (only while nothing is under it)
directory_changes ==
  /\ disk.entries = {}
  /\ \E root \in {"dir", "file", "missing"} :
       /\ root # disk.root
       /\ disk' = [disk EXCEPT !.root = root]
  /\ listing' = NoListing
  /\ UNCHANGED <<batchInputVars, workerVars, guiVars, componentVars, formVars, timezoneVars, taggerVars>>

\* a file or directory appears under the directory
entry_created ==
  /\ disk.root = "dir"
  /\ Cardinality(disk.entries) < MaxEntries
  /\ \E e \in Entries \ disk.entries :
       disk' = [disk EXCEPT !.entries = @ \cup {e}]
  /\ listing' = NoListing
  /\ UNCHANGED <<batchInputVars, workerVars, guiVars, componentVars, formVars, timezoneVars, taggerVars>>

\* a file or directory under the directory is removed
entry_removed ==
  /\ \E e \in disk.entries :
       disk' = [disk EXCEPT !.entries = @ \ {e}]
  /\ listing' = NoListing
  /\ UNCHANGED <<batchInputVars, workerVars, guiVars, componentVars, formVars, timezoneVars, taggerVars>>

\* _get_images(config.import_dir) and countImages(directory) on the
\* directory as it is
list_images ==
  /\ listing' = [called |-> TRUE, images |-> _get_images(disk),
                 count |-> countImages(disk)]
  /\ UNCHANGED <<batchInputVars, workerVars, guiVars, componentVars, formVars, timezoneVars, taggerVars>>
  /\ UNCHANGED disk

ImagesNext ==
  \/ directory_changes
  \/ entry_created
  \/ entry_removed
  \/ list_images

\* ------------------- GeotagWorker._process_image, statement by statement
\* largest number of batches started one after the other
MaxBatches == 2

\* Path(a) / b, for a relative path b
joinpath(a, b) == a \o b

\* Path.relative_to(base) keeping only the file name
relative_to_name_only(p, base) == <<p[Len(p)]>>

\* Path.relative_to(base), for a path below base
relative_to(p, base) == SubSeq(p, Len(base) + 1, Len(p))

\* Path.parent
parent(p) == SubSeq(p, 1, Len(p) - 1)

\* whether path p is directory d or lies below it
IsWithin(p, d) == Len(p) >= Len(d) /\ SubSeq(p, 1, Len(d)) = d

\* A dict is a set of <<key, value>> pairs with one pair per key; every
\* value is a sequence of strings.
dict_keys(d) == {p[1] : p \in d}

\* a |= b
dict_ior(a, b) == {p \in a : p[1] \notin dict_keys(b)} \cup b

\* new_exif_tags = base_tags: a second name for the same dict object
copy_shares(d) == [shared |-> TRUE, value |-> d]

\* copy.copy(d): a new dict object with the same items
copy_copy(d) == [shared |-> FALSE, value |-> d]

\* MainController._gen_attribution_tags
_gen_attribution_tags(model) ==
  LET collector_str ==
        IF model.collectorORCID # <<>>
        THEN model.collectorName \o <<" (Image collector, ORCID: ">>
             \o model.collectorORCID \o <<")">>
        ELSE model.collectorName \o <<" (Image collector)">>
      pi_str ==
        IF model.piORCID # <<>>
        THEN model.piName \o <<" (Principal Investigator, ORCID: ">>
             \o model.piORCID \o <<")">>
        ELSE model.piName \o <<" (Principal Investigator)">>
  IN  {<<"Exif:Artist", collector_str \o <<"; ">> \o pi_str>>,
       <<"Creator", collector_str \o <<"; ">> \o pi_str>>,
       <<"Copyright", model.organisation \o <<" (Licensed under ">>
                      \o model.license \o <<")">>>>}

\* the forms a batch is started from: attribution switched on or off
ProcessForms ==
  {[CompletedForm EXCEPT !.attributionExport = a, !.cameraTimezoneIndex = i] :
     a \in BOOLEAN, i \in {15, 32}}

\* the export directories a batch is started with: a directory of its own,
\* a directory below the import directory, and the import directory
\* itself written as a URL (which validation lets through)
ProcessExports == {<<"/out">>, <<"/in", "out">>, <<FileUrl, "/in">>}

\* image files below the import directory, relative to it
RelativeImages == {<<"a.jpg">>, <<"sub", "a.jpg">>, <<"out", "a.jpg">>}

\* _get_images(import_dir): the possible lists, every file once
image_lists(import_dir) ==
  {l \in SeqsUpTo({joinpath(import_dir, r) : r \in RelativeImages}, MaxImages) :
     \A i, j \in 1..Len(l) : i # j => l[i] # l[j]}

\* et.get_metadata(image_fn)[0]: the capture time embedded in the image
\* (none: the image has no time data)
ExifData == {<<"08:37:40">>, <<"08:37:50">>, <<"23:00:00">>, <<"none">>}

\* tagger.generate_gps_tags(exif_data, tz_override): the exception it
\* raises, or "" when it returns
generate_gps_tags_raises(exif_data) ==
  IF exif_data = <<"none">> THEN "AssertionError"
  ELSE IF exif_data = <<"23:00:00">> THEN "IndexError"
  ELSE ""

\* the dicts tagger.generate_gps_tags may return for an image: the GPS
\* keys add_to_ifdo reads, and possibly further keys (nothing in the
\* worker restricts the keys of the result)
generate_gps_tags_results(tg, exif_data, tz_override) ==
  LET gps == {<<"Exif:GPSDateStamp", <<"2023:06:16">>>>,
              <<"Exif:GPSTimeStamp", exif_data \o tz_override>>,
              <<"Composite:GPSPosition", <<"position at ">> \o exif_data>>}
  IN  {gps, gps \cup {<<"Copyright", <<"set by the tagger">>>>}}

\* the content of a file: the image it was copied from and the tags
\* set_tags wrote into it since (<<"copied">>: none yet)
FileContent(source, written) == [source |-> source, written |-> written]

\* what is read at path p: what this worker wrote there, else the image
\* that was there before the batch
read_file(fs, p) ==
  IF \E f \in fs : f.path = p
  THEN (CHOOSE f \in fs : f.path = p).content
  ELSE FileContent(p, <<"untouched">>)

\* writing content c at path p
write_file(fs, p, c) ==
  {f \in fs : f.path # p} \cup {[path |-> p, content |-> c]}

\* hashlib.sha256 over the bytes of a file: equal for equal contents only
sha256(content) == <<"sha256", content>>

\* the file add_to_ifdo hashes, when it hashes the image it was given
hashed_path_source(cfg, fr) == fr.image_fn

\* the file add_to_ifdo hashes: open(self.config.export_dir / relative_fn)
hashed_path(cfg, fr) == joinpath(cfg.export_dir, fr.relative_fn)

\* the tagger object a _process_image call uses, were one built per image
tagger_per_image(cfg, img) == cfg.tagger + img

\* the tagger object a _process_image call uses: self.config.tagger
tagger_of(cfg, img) == cfg.tagger

Operation(op, img, path) == [op |-> op, img |-> img, path |-> path]

NoWorkerConfig ==
  [tagger |-> 0, import_dir |-> <<>>, export_dir |-> <<>>, ifdo_model |-> FALSE,
   tz_override |-> <<>>, kml_export |-> FALSE, base_tags |-> {}]

NoWorker == [config |-> NoWorkerConfig, image_list |-> <<>>, idx |-> 0]

NoFrame ==
  [image_fn |-> <<>>, relative_fn |-> <<>>, exif_data |-> <<>>,
   new_exif_tags |-> copy_copy({}), save_fn |-> <<>>]

ProcessIdle ==
  /\ worker = NoWorker
  /\ frame = NoFrame
  /\ step = "idle"
  /\ files = {}
  /\ dirs = {}
  /\ trace = <<>>
  /\ tag_calls = <<>>
  /\ ifdo_calls = <<>>
  /\ taggers_built = 0

processRest ==
  <<batchInputVars, workerVars, guiVars, formVars, timezoneVars, taggerVars,
    imagesVars, clickVars, feedbackVars, windowVars, gpxVars>>

\* run_geotagging_process after validation (tz_override, the tagger, the
\* worker configuration) and GeotagWorker.run up to its loop
process_worker_start ==
  /\ step \in {"idle", "done", "raised"}
  /\ taggers_built < MaxBatches
  /\ taggers_built' = taggers_built + 1
  /\ LET import_dir == strip_file_url(importDirectory)
     IN  \E l \in image_lists(import_dir) :
           worker' =
             [config |->
                [tagger |-> taggers_built + 1,
                 import_dir |-> import_dir,
                 export_dir |-> strip_file_url(exportDirectory),
                 ifdo_model |-> ifdoEnable,
                 tz_override |-> replace_UTC(TIMEZONES[form.cameraTimezoneIndex + 1]),
                 kml_export |-> exportKML,
                 base_tags |-> IF form.attributionExport
                               THEN _gen_attribution_tags(form) ELSE {}],
              image_list |-> l, idx |-> 0]
  /\ frame' = NoFrame
  /\ step' = "loop"
  /\ files' = {}
  /\ dirs' = {}
  /\ trace' = <<>>
  /\ tag_calls' = <<>>
  /\ ifdo_calls' = <<>>
  /\ UNCHANGED processRest

\* _process_image up to the tagger call: relative_fn, exif_data and the
\* copy of the base tags
process_image_begin ==
  /\ step = "loop"
  /\ worker.idx < Len(worker.image_list)
  /\ LET image_fn == worker.image_list[worker.idx + 1]
     IN  \E exif_data \in ExifData :
           frame' = [image_fn |-> image_fn,
                     relative_fn |-> relative_to(image_fn, worker.config.import_dir),
                     exif_data |-> exif_data,
                     new_exif_tags |-> copy_copy(worker.config.base_tags),
                     save_fn |-> <<>>]
  /\ step' = "generate_gps_tags"
  /\ UNCHANGED <<worker, files, dirs, trace, tag_calls, ifdo_calls, taggers_built>>
  /\ UNCHANGED processRest

\* new_exif_tags |= self.config.tagger.generate_gps_tags(...), with its
\* except branches (the image is skipped)
process_image_generate ==
  /\ step = "generate_gps_tags"
  /\ LET cfg == worker.config
         img == worker.idx + 1
         tg  == tagger_of(cfg, img)
         call(raised, result) ==
           [tagger |-> tg, tz_override |-> cfg.tz_override, img |-> img,
            raised |-> raised, result |-> result]
     IN  /\ IF generate_gps_tags_raises(frame.exif_data) # ""
            THEN /\ tag_calls' = Append(tag_calls, call(TRUE, {}))
                 /\ step' = "loop"
                 /\ worker' = [worker EXCEPT !.idx = @ + 1]
                 /\ frame' = frame
            ELSE \E gps \in generate_gps_tags_results(tg, frame.exif_data,
                                                      cfg.tz_override) :
                   LET merged == dict_ior(frame.new_exif_tags.value, gps)
                   IN  /\ tag_calls' = Append(tag_calls, call(FALSE, gps))
                       /\ frame' = [frame EXCEPT !.new_exif_tags.value = merged]
                       /\ worker' = IF frame.new_exif_tags.shared
                                    THEN [worker EXCEPT !.config.base_tags = merged]
                                    ELSE worker
                       /\ step' = "mkdir"
  /\ UNCHANGED <<files, dirs, trace, ifdo_calls, taggers_built>>
  /\ UNCHANGED processRest

\* save_fn = export_dir / relative_fn; save_fn.parent.mkdir(parents=True,
\* exist_ok=True): the missing directories from the export directory down
process_image_mkdir ==
  /\ step = "mkdir"
  /\ LET save_fn == joinpath(worker.config.export_dir, frame.relative_fn)
         made == {SubSeq(save_fn, 1, n) :
                    n \in (Len(worker.config.export_dir) + 1)..(Len(save_fn) - 1)}
     IN  /\ frame' = [frame EXCEPT !.save_fn = save_fn]
         /\ dirs' = dirs \cup made
         /\ trace' = Append(trace, Operation("mkdir", worker.idx + 1, parent(save_fn)))
  /\ step' = "copy2"
  /\ UNCHANGED <<worker, files, tag_calls, ifdo_calls, taggers_built>>
  /\ UNCHANGED processRest

\* shutil.copy2(image_fn, save_fn); SameFileError when both are one file
process_image_copy2 ==
  /\ step = "copy2"
  /\ IF frame.image_fn = frame.save_fn
     THEN /\ step' = "raised"
          /\ UNCHANGED <<files, trace>>
     ELSE /\ files' = write_file(files, frame.save_fn,
                                 FileContent(frame.image_fn, <<"copied">>))
          /\ trace' = Append(trace, Operation("copy2", worker.idx + 1, frame.save_fn))
          /\ step' = "set_tags"
  /\ UNCHANGED <<worker, frame, dirs, tag_calls, ifdo_calls, taggers_built>>
  /\ UNCHANGED processRest

\* et.set_tags(files=save_fn, tags=new_exif_tags, ...)
process_image_set_tags ==
  /\ step = "set_tags"
  /\ files' = write_file(files, frame.save_fn,
                         FileContent(read_file(files, frame.save_fn).source,
                                     <<"tagged", frame.new_exif_tags.value>>))
  /\ trace' = Append(trace, Operation("set_tags", worker.idx + 1, frame.save_fn))
  /\ step' = "add_to_ifdo"
  /\ UNCHANGED <<worker, frame, dirs, tag_calls, ifdo_calls, taggers_built>>
  /\ UNCHANGED processRest

\* if self.config.ifdo_model is not None: self.add_to_ifdo(...)
process_image_add_to_ifdo ==
  /\ step = "add_to_ifdo"
  /\ IF worker.config.ifdo_model
     THEN LET p == hashed_path(worker.config, frame)
          IN  /\ ifdo_calls' = Append(ifdo_calls,
                     [image_relative_path |-> frame.relative_fn,
                      image_hash_sha256 |-> sha256(read_file(files, p)),
                      img |-> worker.idx + 1])
              /\ trace' = Append(trace, Operation("add_to_ifdo", worker.idx + 1, p))
     ELSE UNCHANGED <<ifdo_calls, trace>>
  /\ step' = "add_image_point"
  /\ UNCHANGED <<worker, frame, files, dirs, tag_calls, taggers_built>>
  /\ UNCHANGED processRest

\* if kml_gen: kml_gen.add_image_point(save_fn), then back in run's loop
process_image_add_image_point ==
  /\ step = "add_image_point"
  /\ trace' = IF worker.config.kml_export
              THEN Append(trace, Operation("add_image_point", worker.idx + 1,
                                           frame.save_fn))
              ELSE trace
  /\ worker' = [worker EXCEPT !.idx = @ + 1]
  /\ step' = "loop"
  /\ UNCHANGED <<frame, files, dirs, tag_calls, ifdo_calls, taggers_built>>
  /\ UNCHANGED processRest

\* GeotagWorker.run after the loop
process_worker_finish ==
  /\ step = "loop"
  /\ worker.idx = Len(worker.image_list)
  /\ step' = "done"
  /\ UNCHANGED <<worker, frame, files, dirs, trace, tag_calls, ifdo_calls,
                 taggers_built>>
  /\ UNCHANGED processRest

ProcessNext ==
  \/ process_worker_start
  \/ process_image_begin
  \/ process_image_generate
  \/ process_image_mkdir
  \/ process_image_copy2
  \/ process_image_set_tags
  \/ process_image_add_to_ifdo
  \/ process_image_add_image_point
  \/ process_worker_finish

\* ----------------------- run_geotagging_process while a worker is running
\* largest number of clicks on Start that pass validation
MaxClicks == 3

\* the export directories the form names when Start is clicked
ClickExports == {<<"/out">>, <<"/out2">>}

WorkerThread_(state, export_dir) == [state |-> state, export_dir |-> export_dir]

\* whether the QThread self._workerthread refers to has not finished
workerthread_unfinished(ts) ==
  ts # <<>> /\ ts[Len(ts)].state \in {"running", "quitting"}

ClickIdle ==
  /\ workerthreads = <<>>
  /\ application = "running"

clickRest ==
  <<batchInputVars, workerVars, guiVars, formVars, timezoneVars, taggerVars,
    imagesVars, processVars, feedbackVars, windowVars, gpxVars>>

\* MainController.run_geotagging_process for a form that passes validation:
\* nothing looks at self._worker or self._workerthread before
\* self._workerthread = QThread() rebinds the attribute, a new worker is
\* moved to the new thread and the thread is started.  When the QThread
\* that was bound before is still running, dropping its last reference
\* either destroys it (Qt aborts the process: "QThread: Destroyed while
\* thread is still running") or, if something else keeps it alive, leaves
\* it running beside the new one.
run_geotagging_process_outcomes(ts, export_dir) ==
  LET started == [threads |-> Append(ts, WorkerThread_("running", export_dir)),
                  application |-> "running"]
  IN  IF workerthread_unfinished(ts)
      THEN {started, [threads |-> ts, application |-> "aborted"]}
      ELSE {started}

click_start ==
  /\ application = "running"
  /\ Len(workerthreads) < MaxClicks
  /\ \E export_dir \in ClickExports :
       \E o \in run_geotagging_process_outcomes(workerthreads, export_dir) :
         /\ workerthreads' = o.threads
         /\ application' = o.application
  /\ UNCHANGED clickRest

\* GeotagWorker.run returns in its thread: finished is emitted, which
\* queues quit for that thread
click_worker_finished ==
  /\ application = "running"
  /\ \E i \in 1..Len(workerthreads) :
       /\ workerthreads[i].state = "running"
       /\ workerthreads' = [workerthreads EXCEPT ![i].state = "quitting"]
  /\ UNCHANGED application
  /\ UNCHANGED clickRest

\* the thread leaves its event loop
click_thread_finished ==
  /\ application = "running"
  /\ \E i \in 1..Len(workerthreads) :
       /\ workerthreads[i].state = "quitting"
       /\ workerthreads' = [workerthreads EXCEPT ![i].state = "finished"]
  /\ UNCHANGED application
  /\ UNCHANGED clickRest

ClickNext ==
  \/ click_start
  \/ click_worker_finished
  \/ click_thread_finished

\* ------------------------------------- FeedbackModel.updateProgress calls
\* largest max_value updateProgress is called with
MaxTotal == 50

\* the values of max_value: no image, a few images, many images
Totals == {0, 1, 3, 7, MaxTotal}

NoUpdateCall == [called |-> FALSE, current_value |-> 0, max_value |-> 0]

FeedbackIdle ==
  /\ update_call = NoUpdateCall
  /\ progressChanged = <<>>

\* the emissions of the progress setter: progressChanged only when the
\* stored value differs from the new one
progress_setter_emits(stored, value) == IF stored # value THEN <<value>> ELSE <<>>

\* a call of the slot FeedbackModel.updateProgress(current_value, max_value)
\* with 0 <= current_value <= max_value; progressChanged is connected to
\* MainWindow.setProgress
updateProgress_call ==
  /\ \E max_value \in Totals : \E current_value \in 0..max_value :
       /\ update_call' = [called |-> TRUE, current_value |-> current_value,
                          max_value |-> max_value]
       /\ progress' = updateProgress(current_value, max_value)
       /\ progressChanged' = progress_setter_emits(progress, progress')
       /\ progress_bar' = IF progressChanged' # <<>>
                          THEN setProgress(progressChanged'[1])
                          ELSE progress_bar
  /\ UNCHANGED <<batchInputVars, formVars, timezoneVars, taggerVars, imagesVars,
                 processVars, clickVars, windowVars, gpxVars, workerVars, thread,
                 mainQueue, feedbackText>>

FeedbackNext == updateProgress_call

\* ------------------------------------------- MainWindow (views/application.py)
\* the text fields of the attribution group and of the iFDO group
AttributionFields == {"pi_name", "copyright_owner", "license"}
IfdoFields == {"image_set_name", "distance_ag", "image_abstract"}

\* what a user types into a field
FieldTexts == {"", "text"}

\* MainWindow.__init__: both checkboxes unchecked, both groups disabled
MainWindow ==
  [attribution_export |-> FALSE, ifdo_export_checkbox |-> FALSE,
   kml_export |-> FALSE, attribution_group_enabled |-> FALSE,
   ifdo_group_enabled |-> FALSE,
   attribution_text |-> [f \in AttributionFields |->
                           IF f = "license" THEN "CC BY 4.0" ELSE ""],
   ifdo_text |-> [f \in IfdoFields |-> ""]]

\* enableDisableIFDODetails (slot of ifdoExportChanged)
enableDisableIFDODetails(w) ==
  LET enabled == w.ifdo_export_checkbox
  IN  [w EXCEPT !.ifdo_group_enabled = enabled,
                !.ifdo_text = IF enabled THEN @ ELSE [f \in IfdoFields |-> ""]]

\* self._ifdo_export_checkbox.setChecked(v): stateChanged, and with it
\* ifdoExportChanged, is emitted only when the state changes
ifdo_setChecked(w, v) ==
  IF w.ifdo_export_checkbox = v THEN w
  ELSE enableDisableIFDODetails([w EXCEPT !.ifdo_export_checkbox = v])

\* enableDisableAttributionFields without the reset of the iFDO checkbox
enableDisableAttributionFields_keeps_ifdo(w) ==
  LET enabled == w.attribution_export
  IN  [w EXCEPT !.attribution_group_enabled = enabled,
                !.attribution_text =
                   IF enabled THEN @
                   ELSE [f \in AttributionFields |->
                           IF f = "license" THEN "CC BY 4.0" ELSE ""]]

\* enableDisableAttributionFields (slot of attributionExportChanged): the
\* group, which holds the iFDO checkbox, is enabled or disabled; when
\* disabled its texts are cleared, the iFDO checkbox is unchecked and the
\* license is reset
enableDisableAttributionFields(w) ==
  LET enabled == w.attribution_export
      group == [w EXCEPT !.attribution_group_enabled = enabled,
                         !.attribution_text =
                            IF enabled THEN @ ELSE [f \in AttributionFields |-> ""]]
  IN  IF enabled THEN group
      ELSE [ifdo_setChecked(group, FALSE) EXCEPT
              !.attribution_text["license"] = "CC BY 4.0"]

\* self._attribution_export.setChecked(v)
attribution_setChecked(w, v) ==
  IF w.attribution_export = v THEN w
  ELSE enableDisableAttributionFields([w EXCEPT !.attribution_export = v])

WindowIdle == window = MainWindow

windowRest ==
  <<batchInputVars, workerVars, guiVars, formVars, timezoneVars, taggerVars,
    imagesVars, processVars, clickVars, feedbackVars, gpxVars>>

\* the user clicks the attribution checkbox
attribution_export_clicked ==
  /\ window' = attribution_setChecked(window, ~window.attribution_export)
  /\ UNCHANGED windowRest

\* the user clicks the iFDO checkbox, which a disabled checkbox ignores
ifdo_export_clicked ==
  /\ window.attribution_group_enabled
  /\ window' = ifdo_setChecked(window, ~window.ifdo_export_checkbox)
  /\ UNCHANGED windowRest

\* the user clicks the KML checkbox
kml_export_clicked ==
  /\ window' = [window EXCEPT !.kml_export = ~@]
  /\ UNCHANGED windowRest

\* the user types into a field of an enabled group
window_text_edited ==
  /\ \E t \in FieldTexts :
       \/ /\ window.attribution_group_enabled
          /\ \E f \in AttributionFields :
               /\ window.attribution_text[f] # t
               /\ window' = [window EXCEPT !.attribution_text[f] = t]
       \/ /\ window.ifdo_group_enabled
          /\ \E f \in IfdoFields :
               /\ window.ifdo_text[f] # t
               /\ window' = [window EXCEPT !.ifdo_text[f] = t]
  /\ UNCHANGED windowRest

\* MainWindow.clearForm (slot of clearFormTriggered), as far as these
\* widgets go: the iFDO checkbox, the texts, the attribution checkbox and
\* the KML checkbox, in this order
window_clearForm ==
  /\ LET w1 == ifdo_setChecked(window, FALSE)
         w2 == [w1 EXCEPT !.ifdo_text = [f \in IfdoFields |-> ""],
                          !.attribution_text =
                             [f \in AttributionFields |->
                                IF f = "license" THEN "CC BY 4.0" ELSE ""]]
         w3 == attribution_setChecked(w2, FALSE)
     IN  window' = [w3 EXCEPT !.kml_export = FALSE]
  /\ UNCHANGED windowRest

WindowNext ==
  \/ attribution_export_clicked
  \/ ifdo_export_clicked
  \/ kml_export_clicked
  \/ window_text_edited
  \/ window_clearForm

\* ------------------------- the legacy GUI's GPX threads (ibenthos_pt_ifdo_gui)
\* most GPX selections of one session
MaxSelections == 2

\* the GPX files a user selects
GpxPaths == {<<"a.gpx">>, <<"b.gpx">>}

\* an empty text field, and what a user types into a site field
EmptyText == <<>>
UserText == <<"user">>

\* _get_average_gpx: the mean latitude and longitude of the file's points
_get_average_gpx(path) ==
  [avg_lat |-> <<"avg_lat">> \o path, avg_lon |-> <<"avg_lon">> \o path]

\* f"{value:.08f}"
format_08f(value) == <<".08f">> \o value

\* the GPX file a formatted average was computed from
gpx_source(text) == SubSeq(text, 3, Len(text))

\* whether a field's text is a formatted average
auto_filled(text) == Len(text) > 0 /\ Head(text) = ".08f"

\* threading.Thread(target=self._process_gpx_file, args=(path,)) at its
\* first statement
GpxThread(path) == [path |-> path, pc |-> "open", overwrote |-> FALSE]

GpxIdle ==
  /\ gpx_filepath = EmptyText
  /\ site_lat = EmptyText
  /\ site_lon = EmptyText
  /\ gpx_threads = <<>>

gpxRest ==
  <<batchInputVars, workerVars, guiVars, formVars, timezoneVars, taggerVars,
    imagesVars, processVars, clickVars, feedbackVars, windowVars>>

\* the gpxFilepath setter: a changed path is stored and gpxFilepathChanged
\* runs gpxFileSelected, which starts a thread
gpxFilepath_setter(path) ==
  IF gpx_filepath # path
  THEN /\ gpx_filepath' = path
       /\ gpx_threads' = Append(gpx_threads, GpxThread(path))
  ELSE UNCHANGED <<gpx_filepath, gpx_threads>>

\* the user selects a GPX file
gpx_file_selected ==
  /\ Len(gpx_threads) < MaxSelections
  /\ \E path \in GpxPaths :
       /\ gpx_filepath # path
       /\ gpxFilepath_setter(path)
  /\ UNCHANGED <<site_lat, site_lon>>
  /\ UNCHANGED gpxRest

\* the user types a latitude (the siteLatitude setter)
site_lat_typed ==
  /\ site_lat # UserText
  /\ site_lat' = UserText
  /\ UNCHANGED <<gpx_filepath, site_lon, gpx_threads>>
  /\ UNCHANGED gpxRest

\* the user types a longitude (the siteLongitude setter)
site_lon_typed ==
  /\ site_lon # UserText
  /\ site_lon' = UserText
  /\ UNCHANGED <<gpx_filepath, site_lat, gpx_threads>>
  /\ UNCHANGED gpxRest

\* UserInputModel.clearForm, as far as these fields go; it runs on the GUI
\* thread, so no other GUI-thread step comes between its assignments
legacy_clearForm ==
  /\ gpx_filepath # EmptyText \/ site_lat # EmptyText \/ site_lon # EmptyText
  /\ gpx_filepath # EmptyText => Len(gpx_threads) < MaxSelections
  /\ gpxFilepath_setter(EmptyText)
  /\ site_lat' = EmptyText
  /\ site_lon' = EmptyText
  /\ UNCHANGED gpxRest

\* _process_gpx_file: open(path) and gpxpy.parse; the empty path that
\* clearForm sets cannot be opened
gpx_thread_open(i) ==
  /\ gpx_threads[i].pc = "open"
  /\ gpx_threads' = [gpx_threads EXCEPT ![i].pc =
                       IF gpx_threads[i].path = EmptyText THEN "raised"
                       ELSE "check_lat"]
  /\ UNCHANGED <<gpx_filepath, site_lat, site_lon>>
  /\ UNCHANGED gpxRest

\* if self._model.siteLatitude == "":
gpx_thread_check_lat(i) ==
  /\ gpx_threads[i].pc = "check_lat"
  /\ gpx_threads' = [gpx_threads EXCEPT ![i].pc =
                       IF site_lat = EmptyText THEN "set_lat" ELSE "check_lon"]
  /\ UNCHANGED <<gpx_filepath, site_lat, site_lon>>
  /\ UNCHANGED gpxRest

\* self._model.siteLatitude = f"{avg_lat:.08f}"
gpx_thread_set_lat(i) ==
  /\ gpx_threads[i].pc = "set_lat"
  /\ site_lat' = format_08f(_get_average_gpx(gpx_threads[i].path).avg_lat)
  /\ gpx_threads' = [gpx_threads EXCEPT
                       ![i].pc = "check_lon",
                       ![i].overwrote = @ \/ site_lat # EmptyText]
  /\ UNCHANGED <<gpx_filepath, site_lon>>
  /\ UNCHANGED gpxRest

\* if self._model.siteLongitude == "":
gpx_thread_check_lon(i) ==
  /\ gpx_threads[i].pc = "check_lon"
  /\ gpx_threads' = [gpx_threads EXCEPT ![i].pc =
                       IF site_lon = EmptyText THEN "set_lon" ELSE "done"]
  /\ UNCHANGED <<gpx_filepath, site_lat, site_lon>>
  /\ UNCHANGED gpxRest

\* self._model.siteLongitude = f"{avg_lon:.08f}"
gpx_thread_set_lon(i) ==
  /\ gpx_threads[i].pc = "set_lon"
  /\ site_lon' = format_08f(_get_average_gpx(gpx_threads[i].path).avg_lon)
  /\ gpx_threads' = [gpx_threads EXCEPT
                       ![i].pc = "done",
                       ![i].overwrote = @ \/ site_lon # EmptyText]
  /\ UNCHANGED <<gpx_filepath, site_lat>>
  /\ UNCHANGED gpxRest

\* one statement of one thread; the interpreter may switch threads between
\* any two of them
gpx_thread_step ==
  \E i \in 1..Len(gpx_threads) :
    \/ gpx_thread_open(i)
    \/ gpx_thread_check_lat(i)
    \/ gpx_thread_set_lat(i)
    \/ gpx_thread_check_lon(i)
    \/ gpx_thread_set_lon(i)

GpxNext ==
  \/ gpx_file_selected
  \/ site_lat_typed
  \/ site_lon_typed
  \/ legacy_clearForm
  \/ gpx_thread_step

ComponentsIdle ==
  ProcessIdle /\ ClickIdle /\ FeedbackIdle /\ WindowIdle /\ GpxIdle

\* ------------------------------------------------------- the start states
Init ==
  /\ variant \in Variants
  /\ importDirectory \in ImportInputs
  /\ exportDirectory \in ExportInputs
  /\ ifdoEnable \in BOOLEAN
  /\ exportKML \in BOOLEAN
  /\ NoBatch
  /\ FormIdle
  /\ TimezoneIdle
  /\ TaggerIdle
  /\ ImagesIdle
  /\ ComponentsIdle

\* --------------------------------------------- MainController (GUI thread)
\* a queued slot invocation: the slot, its integer arguments and its line
Event(slot, a, b, line) == [slot |-> slot, a |-> a, b |-> b, line |-> line]

NoLine == Line("", 0)

\* the state of a newly constructed GeotagWorker
NewWorker(cfg) ==
  /\ config' = cfg
  /\ pc' = "started"
  /\ image_list' = <<>>
  /\ idx' = 0
  /\ progress_emits' = <<>>
  /\ error_msgs' = <<>>
  /\ logged' = <<>>
  /\ finished_emits' = 0
  /\ export_files' = {}
  /\ tagged_files' = {}
  /\ ifdo_added' = <<>>
  /\ kml_added' = <<>>
  /\ ifdo_exports' = 0
  /\ kml_saves' = 0
run_geotagging_process_invalid_no_return ==
  /\ thread = "none"
  /\ ~validate(importDirectory, exportDirectory)
  /\ NewWorker([import_dir |-> strip_file_url(importDirectory),
                export_dir |-> strip_file_url(exportDirectory),
                ifdo_model |-> ifdoEnable,
                kml_export |-> exportKML])
  /\ thread' = "running"
  /\ \E errs \in Orderings(latest_errors(importDirectory, exportDirectory)) :
       feedbackText' =
         <<Line("Validating input...", 0), Line("Validation failed", 0)>>
         \o [i \in 1..Len(errs) |-> Line(errs[i], 0)]
         \o <<Line("Geotagging images ...", 0), Line("Processing images...", 0)>>
  /\ UNCHANGED <<userVars, mainQueue, progress, progress_bar>>

\* run_geotagging_process when validator.validate(model) is False
run_geotagging_process_invalid ==
  /\ thread = "none"
  /\ ~validate(importDirectory, exportDirectory)
  /\ \E errs \in Orderings(latest_errors(importDirectory, exportDirectory)) :
       feedbackText' =
         <<Line("Validating input...", 0), Line("Validation failed", 0)>>
         \o [i \in 1..Len(errs) |-> Line(errs[i], 0)]
  /\ UNCHANGED <<userVars, workerVars, thread, mainQueue, progress, progress_bar>>

\* run_geotagging_process when PhotoTransectGPSTagger.from_files raises
run_geotagging_process_tagger_raises ==
  /\ thread = "none"
  /\ validate(importDirectory, exportDirectory)
  /\ feedbackText' = <<Line("Validating input...", 0)>>
  /\ UNCHANGED <<userVars, workerVars, thread, mainQueue, progress, progress_bar>>

\* run_geotagging_process when validation passes and the tagger is built:
\* the worker is configured, moved to its thread and the thread is started
run_geotagging_process_start ==
  /\ thread = "none"
  /\ validate(importDirectory, exportDirectory)
  /\ NewWorker([import_dir |-> strip_file_url(importDirectory),
                export_dir |-> strip_file_url(exportDirectory),
                ifdo_model |-> ifdoEnable,
                kml_export |-> exportKML])
  /\ thread' = "running"
  /\ feedbackText' = <<Line("Validating input...", 0),
                       Line("Geotagging images ...", 0),
                       Line("Processing images...", 0)>>
  /\ UNCHANGED <<userVars, mainQueue, progress, progress_bar>>

\* MainController.run_geotagging_process, for clicks on Start made while no
\* worker thread exists
run_geotagging_process ==
  \/ run_geotagging_process_invalid
  \/ run_geotagging_process_tagger_raises
  \/ run_geotagging_process_start

\* ------------------------------------------- GeotagWorker (worker thread)
\* _get_images(config.import_dir): the listing of the import directory.
\* When the export directory is the import directory every destination
\* parent already exists, so mkdir(exist_ok=True) cannot fail there.
get_images(cfg) ==
  IF cfg.import_dir = cfg.export_dir
  THEN {l \in ImageLists : Range(l) \cap {"mkdir_error", "no_parent"} = {}}
  ELSE ImageLists

\* what _process_image (controller.py) / the loop body (main.py) does with
\* one image: emitted diagnostics, logger.error records, effects on the
\* export directory and the collaborators, and how the body is left
\* (raised: an exception propagates; skipped: early return / continue)
Outcome(raised, skipped, errs, logs, copied, tagged, ifdo, kml) ==
  [raised |-> raised, skipped |-> skipped, errs |-> errs, logs |-> logs,
   copied |-> copied, tagged |-> tagged, ifdo |-> ifdo, kml |-> kml]

\* the except branches of the tagger call: the diagnostic is logged and
\* emitted on error_msgs, then the body is left early
tagger_skip_silent(msg) ==
  Outcome(FALSE, TRUE, <<>>, <<msg>>, FALSE, FALSE, FALSE, FALSE)

tagger_skip(msg) ==
  Outcome(FALSE, TRUE, <<msg>>, <<msg>>, FALSE, FALSE, FALSE, FALSE)

\* after the copy and set_tags: add_to_ifdo when an IFDO model is
\* configured, add_image_point when a KML generator exists (its KeyError is
\* caught and reported)
forward_to_collaborators_unguarded(fate, cfg) ==
  IF cfg.kml_export /\ fate = "kml_keyerror"
  THEN Outcome(FALSE, FALSE, <<"Missing GPS data">>, <<"Missing GPS data">>,
               TRUE, TRUE, TRUE, TRUE)
  ELSE Outcome(FALSE, FALSE, <<>>, <<>>, TRUE, TRUE, TRUE, cfg.kml_export)

forward_to_collaborators(fate, cfg) ==
  IF cfg.kml_export /\ fate = "kml_keyerror"
  THEN Outcome(FALSE, FALSE, <<"Missing GPS data">>, <<"Missing GPS data">>,
               TRUE, TRUE, cfg.ifdo_model, TRUE)
  ELSE Outcome(FALSE, FALSE, <<>>, <<>>, TRUE, TRUE, cfg.ifdo_model, cfg.kml_export)

process_image(fate, cfg) ==
  IF fate = "read_error"
  THEN Outcome(TRUE, FALSE, <<>>, <<>>, FALSE, FALSE, FALSE, FALSE)
  ELSE IF fate = "out_of_range"
  THEN tagger_skip("not within range of GPX file")
  ELSE IF fate = "no_time"
  THEN tagger_skip("does not contain time data")
  ELSE IF fate = "mkdir_error"
  THEN Outcome(TRUE, FALSE, <<>>, <<>>, FALSE, FALSE, FALSE, FALSE)
  ELSE IF fate = "no_parent"
  THEN Outcome(FALSE, TRUE, <<>>, <<"Failed to create directory">>,
               FALSE, FALSE, FALSE, FALSE)
  ELSE IF cfg.import_dir = cfg.export_dir
  THEN \* shutil.copy2 raises SameFileError
       Outcome(TRUE, FALSE, <<>>, <<>>, FALSE, FALSE, FALSE, FALSE)
  ELSE IF fate = "write_error"
  THEN Outcome(TRUE, FALSE, <<>>, <<>>, TRUE, FALSE, FALSE, FALSE)
  ELSE forward_to_collaborators(fate, cfg)

\* whether progress.emit(idx, total_images) is reached after the body:
\* controller.py emits after _process_image returns; in main.py the skip
\* branches `continue` past the emit
emits_progress(v, o) ==
  /\ ~o.raised
  /\ (v = "main" => ~o.skipped)

\* the arguments of progress.emit, were the count of tagged files emitted
progress_emit_tagged(i, total_images) == <<Cardinality(tagged_files), total_images>>

\* the arguments of self.progress.emit(idx, total_images)
progress_emit(i, total_images) == <<i, total_images>>

\* GeotagWorker.run up to the loop: the thread has started, the images are
\* enumerated
GeotagWorker_run_enumerate ==
  /\ pc = "started"
  /\ image_list' \in get_images(config)
  /\ pc' = "loop"
  /\ UNCHANGED <<userVars, guiVars, config, idx, progress_emits, error_msgs,
                 logged, finished_emits, export_files, tagged_files, ifdo_added,
                 kml_added, ifdo_exports, kml_saves>>

\* one iteration of the loop of GeotagWorker.run
GeotagWorker_run_image ==
  /\ pc = "loop"
  /\ idx < Len(image_list)
  /\ LET img   == idx + 1
         total == Len(image_list)
         o     == process_image(image_list[img], config)
         errs  == [i \in 1..Len(o.errs) |-> Line(o.errs[i], img)]
         prog  == IF emits_progress(variant, o)
                  THEN <<progress_emit(idx, total)>> ELSE <<>>
     IN  /\ error_msgs' = error_msgs \o errs
         /\ logged' = logged \o [i \in 1..Len(o.logs) |-> Line(o.logs[i], img)]
         /\ export_files' = IF o.copied THEN export_files \cup {img} ELSE export_files
         /\ tagged_files' = IF o.tagged THEN tagged_files \cup {img} ELSE tagged_files
         /\ ifdo_added' = IF o.ifdo THEN Append(ifdo_added, img) ELSE ifdo_added
         /\ kml_added' = IF o.kml THEN Append(kml_added, img) ELSE kml_added
         /\ progress_emits' = progress_emits \o prog
         /\ mainQueue' = mainQueue
              \o [i \in 1..Len(errs) |-> Event("addFeedbackLine", 0, 0, errs[i])]
              \o [i \in 1..Len(prog) |-> Event("updateProgress", idx, total, NoLine)]
         /\ pc' = IF o.raised THEN "raised" ELSE "loop"
         /\ idx' = IF o.raised THEN idx ELSE idx + 1
  /\ UNCHANGED <<userVars, config, image_list, finished_emits, ifdo_exports,
                 kml_saves, thread, feedbackText, progress, progress_bar>>

\* the number of save calls of a collaborator after the `if` guarding its
\* finalization (export_ifdo_yaml / kml_gen.save)
finalize_unguarded(active, calls) == calls + 1

finalize(active, calls) == IF active THEN calls + 1 ELSE calls

\* GeotagWorker.run after the loop: collaborators are saved, finished is
\* emitted (connected to workerthread.quit and feedback.addFeedbackLine)
GeotagWorker_run_finish ==
  /\ pc = "loop"
  /\ idx = Len(image_list)
  /\ ifdo_exports' = finalize(config.ifdo_model, ifdo_exports)
  /\ kml_saves' = finalize(config.kml_export, kml_saves)
  /\ finished_emits' = finished_emits + 1
  /\ mainQueue' = mainQueue \o
       <<Event("quit", 0, 0, NoLine),
         Event("addFeedbackLine", 0, 0, Line("Finished geotagging images.", 0))>>
  /\ pc' = "done"
  /\ UNCHANGED <<userVars, config, image_list, idx, progress_emits, error_msgs,
                 logged, export_files, tagged_files, ifdo_added, kml_added,
                 thread, feedbackText, progress, progress_bar>>

\* the events QThread.finished queues in the GUI thread: the lambda calling
\* setProgress(100)
on_thread_finished_nothing == <<>>

on_thread_finished == <<Event("setProgress", 100, 0, NoLine)>>

\* the worker thread leaves its event loop after quit and emits
\* QThread.finished
workerthread_finished ==
  /\ thread = "quitting"
  /\ thread' = "finished"
  /\ mainQueue' = mainQueue \o on_thread_finished
  /\ UNCHANGED <<userVars, workerVars, feedbackText, progress, progress_bar>>

\* ------------------------------------- GUI thread: queued slot invocations
\* FeedbackModel.updateProgress, with the progressChanged -> setProgress
\* notification when the stored value changes
dispatch_updateProgress ==
  /\ mainQueue # <<>>
  /\ Head(mainQueue).slot = "updateProgress"
  /\ progress' = updateProgress(Head(mainQueue).a, Head(mainQueue).b)
  /\ progress_bar' = IF progress # progress' THEN setProgress(progress')
                     ELSE progress_bar
  /\ mainQueue' = Tail(mainQueue)
  /\ UNCHANGED <<userVars, workerVars, thread, feedbackText>>

dispatch_addFeedbackLine ==
  /\ mainQueue # <<>>
  /\ Head(mainQueue).slot = "addFeedbackLine"
  /\ feedbackText' = addFeedbackLine(feedbackText, Head(mainQueue).line)
  /\ mainQueue' = Tail(mainQueue)
  /\ UNCHANGED <<userVars, workerVars, thread, progress, progress_bar>>

\* QThread.quit
dispatch_quit ==
  /\ mainQueue # <<>>
  /\ Head(mainQueue).slot = "quit"
  /\ thread' = "quitting"
  /\ mainQueue' = Tail(mainQueue)
  /\ UNCHANGED <<userVars, workerVars, feedbackText, progress, progress_bar>>

\* lambda : self._app_view.setProgress(100)
dispatch_setProgress ==
  /\ mainQueue # <<>>
  /\ Head(mainQueue).slot = "setProgress"
  /\ progress_bar' = setProgress(Head(mainQueue).a)
  /\ mainQueue' = Tail(mainQueue)
  /\ UNCHANGED <<userVars, workerVars, thread, feedbackText, progress>>

GuiThread ==
  \/ dispatch_updateProgress
  \/ dispatch_addFeedbackLine
  \/ dispatch_quit
  \/ dispatch_setProgress

WorkerThread ==
  \/ GeotagWorker_run_enumerate
  \/ GeotagWorker_run_image
  \/ GeotagWorker_run_finish
  \/ workerthread_finished

Next ==
  \/ run_geotagging_process_invalid
  \/ run_geotagging_process_tagger_raises
  \/ run_geotagging_process_start
  \/ GeotagWorker_run_enumerate
  \/ GeotagWorker_run_image
  \/ GeotagWorker_run_finish
  \/ workerthread_finished
  \/ dispatch_updateProgress
  \/ dispatch_addFeedbackLine
  \/ dispatch_quit
  \/ dispatch_setProgress

Spec == Init /\ [][Next]_vars

\* ------------------------------ the form and Start while a batch is running
\* the values the export directory field is given while a worker runs
DuringRunEdits == {<<>>}

\* the exportDirectory setter of UserInputModel called from the view's
\* outputDirChanged signal while the worker runs (the worker keeps the
\* configuration it was constructed with)
field_edited_during_run ==
  /\ thread \in {"running", "quitting"}
  /\ exportDirectory' \in DuringRunEdits
  /\ exportDirectory' # exportDirectory
  /\ UNCHANGED <<variant, importDirectory, ifdoEnable, exportKML, formVars,
                 timezoneVars, taggerVars, imagesVars, componentVars, workerVars,
                 guiVars>>

\* run_geotagging_process called while the worker thread exists, with a
\* form that fails validation: the slot is connected to the Start button
\* whatever the state of the worker, clears the log and returns after the
\* validation lines
run_geotagging_process_invalid_during_run ==
  /\ thread \in {"running", "quitting"}
  /\ ~validate(importDirectory, exportDirectory)
  /\ \E errs \in Orderings(latest_errors(importDirectory, exportDirectory)) :
       feedbackText' =
         <<Line("Validating input...", 0), Line("Validation failed", 0)>>
         \o [i \in 1..Len(errs) |-> Line(errs[i], 0)]
  /\ UNCHANGED <<userVars, workerVars, thread, mainQueue, progress, progress_bar>>

DuringRunNext ==
  \/ Next
  \/ field_edited_during_run
  \/ run_geotagging_process_invalid_during_run

\* a batch during which the user keeps using the form and the Start button
DuringRunSpec == Init /\ [][DuringRunNext]_vars

\* the Qt event loops keep dispatching and the worker thread keeps running
FairSpec == Spec /\ WF_vars(WorkerThread) /\ WF_vars(GuiThread)

\* the form and its validator on their own
FormStart ==
  FormInit /\ NoBatchInputs /\ NoBatch /\ TimezoneIdle /\ TaggerIdle /\ ImagesIdle
  /\ ComponentsIdle

FormSpec == FormStart /\ [][FormNext]_vars

\* the Timezone classes on their own
TimezoneStart ==
  TimezoneIdle /\ NoBatchInputs /\ NoBatch /\ FormIdle /\ TaggerIdle /\ ImagesIdle
  /\ ComponentsIdle

TimezoneSpec == TimezoneStart /\ [][TimezoneNext]_vars

\* the tagging library and the worker's use of its result
TaggerStart ==
  TaggerIdle /\ NoBatchInputs /\ NoBatch /\ FormIdle /\ TimezoneIdle /\ ImagesIdle
  /\ ComponentsIdle

TaggerSpec == TaggerStart /\ [][TaggerNext]_vars

\* the directory listing on its own
ImagesStart ==
  ImagesIdle /\ NoBatchInputs /\ NoBatch /\ FormIdle /\ TimezoneIdle /\ TaggerIdle
  /\ ComponentsIdle

ImagesSpec == ImagesStart /\ [][ImagesNext]_vars

\* the worker followed through _process_image, for batches whose form
\* passed validation (the loop body of main.py has the same statements)
ProcessStart ==
  /\ ProcessIdle
  /\ variant \in Variants
  /\ importDirectory = <<"/in">>
  /\ exportDirectory \in ProcessExports
  /\ ifdoEnable \in BOOLEAN
  /\ exportKML \in BOOLEAN
  /\ form \in ProcessForms
  /\ edited = FALSE
  /\ validator = NewValidator("models")
  /\ clearForm_result = "none"
  /\ NoBatch /\ TimezoneIdle /\ TaggerIdle /\ ImagesIdle
  /\ ClickIdle /\ FeedbackIdle /\ WindowIdle /\ GpxIdle

ProcessSpec == ProcessStart /\ [][ProcessNext]_vars

\* clicks on Start at any time
ClickStart ==
  /\ ClickIdle /\ ProcessIdle /\ FeedbackIdle /\ WindowIdle /\ GpxIdle
  /\ NoBatchInputs /\ NoBatch /\ FormIdle /\ TimezoneIdle /\ TaggerIdle /\ ImagesIdle

ClickSpec == ClickStart /\ [][ClickNext]_vars

\* the feedback model called on its own
FeedbackStart ==
  /\ FeedbackIdle /\ ProcessIdle /\ ClickIdle /\ WindowIdle /\ GpxIdle
  /\ NoBatchInputs /\ NoBatch /\ FormIdle /\ TimezoneIdle /\ TaggerIdle /\ ImagesIdle

FeedbackSpec == FeedbackStart /\ [][FeedbackNext]_vars

\* the main window's checkboxes on their own
WindowStart ==
  /\ WindowIdle /\ FeedbackIdle /\ ProcessIdle /\ ClickIdle /\ GpxIdle
  /\ NoBatchInputs /\ NoBatch /\ FormIdle /\ TimezoneIdle /\ TaggerIdle /\ ImagesIdle

WindowSpec == WindowStart /\ [][WindowNext]_vars

\* the legacy GUI's site fields and GPX threads on their own
GpxStart ==
  /\ GpxIdle /\ WindowIdle /\ FeedbackIdle /\ ProcessIdle /\ ClickIdle
  /\ NoBatchInputs /\ NoBatch /\ FormIdle /\ TimezoneIdle /\ TaggerIdle /\ ImagesIdle

GpxSpec == GpxStart /\ [][GpxNext]_vars

\* ================================================================ claims
\* number of occurrences of x in the sequence s
Count(s, x) == Cardinality({k \in 1..Len(s) : s[k] = x})

\* images the loop body has been left for without an exception
Processed == 1..idx

\* the image whose processing raised, if any
Raising == IF pc = "raised" THEN {idx + 1} ELSE {}

\* progress events emitted for the image at position i (enumerate index i-1)
ProgressFor(i) == {k \in 1..Len(progress_emits) : progress_emits[k][1] = i - 1}

\* diagnostic lines emitted on error_msgs that name image i
DiagnosticsFor(i) == {k \in 1..Len(error_msgs) : error_msgs[k].img = i}

\* every image of the listing is either skipped by the tagger or tagged and
\* copied without any failure
TaggedOrSkippedOnly ==
  \A i \in 1..Len(image_list) :
    \/ image_list[i] \in Skips
    \/ image_list[i] = "ok" /\ process_image("ok", config).tagged

FinishedLine == Line("Finished geotagging images.", 0)

\* C1: for every image of the enumerated list that was tagged or skipped by
\* the tagger, exactly one progress event is emitted after it was processed
\* (in both revisions of the worker).
C1_OneProgressPerImage ==
  \A i \in Processed :
    (i \in tagged_files \/ image_list[i] \in Skips)
      => Cardinality(ProgressFor(i)) = 1

\* C2: for a batch of N >= 1 images the last progress event emitted by run
\* is (N, N).
C2_LastProgressIsComplete ==
  (pc = "done" /\ Len(image_list) >= 1)
    => /\ progress_emits # <<>>
       /\ progress_emits[Len(progress_emits)] = <<Len(image_list), Len(image_list)>>

\* C3: an exception raised while one image is processed (metadata read,
\* copy, metadata write) never propagates out of GeotagWorker.run.
C3_NoExceptionLeavesRun == pc # "raised"

\* C4: every image that ends as a skip (out of range, no timestamp,
\* destination directory not created, metadata write failed) has no file
\* under the export directory, has a diagnostic line naming it, and does
\* not stop the run.
C4_SkipLeavesNoFile ==
  \A i \in Processed \cup Raising :
    image_list[i] \in Skips \cup {"mkdir_error", "no_parent", "write_error"}
      => /\ i \notin export_files
         /\ DiagnosticsFor(i) # {}
         /\ i \notin Raising

\* the terminal state of a batch
Terminal ==
  /\ pc = "done"
  /\ finished_emits = 1
  /\ Count(feedbackText, FinishedLine) = 1
  /\ thread = "finished"
  /\ mainQueue = <<>>
  /\ progress_bar = 100

\* C5: every started batch whose images are all tagged or skipped by the
\* tagger (the empty listing included) eventually reaches its terminal
\* state: finished emitted exactly once, the finished line in the feedback
\* log, the worker thread ended and the progress bar at 100.
C5_BatchTerminates ==
  /\ (pc = "loop" /\ TaggedOrSkippedOnly) ~> Terminal
  /\ [](finished_emits <= 1)

C5_Witness ==
  /\ Terminal
  /\ Len(image_list) >= 2
  /\ "ok" \in Range(image_list)
  /\ Range(image_list) \cap Skips # {}
  /\ TaggedOrSkippedOnly

C7_FinalizeOnce ==
  /\ ifdo_exports <= 1
  /\ kml_saves <= 1
  /\ (ifdo_exports > 0 \/ kml_saves > 0) => (pc = "done" /\ idx = Len(image_list))
  /\ ~config.ifdo_model => ifdo_exports = 0
  /\ ~config.kml_export => kml_saves = 0
  /\ pc = "done" => /\ (config.ifdo_model => ifdo_exports = 1)
                    /\ (config.kml_export => kml_saves = 1)

C7_Witness ==
  /\ pc = "done"
  /\ Len(image_list) >= 2
  /\ config.ifdo_model
  /\ ~config.kml_export
  /\ ifdo_exports = 1
  /\ kml_saves = 0

C9_MkdirFailureIsSkip ==
  \A i \in Processed \cup Raising :
    image_list[i] \in {"mkdir_error", "no_parent"}
      => /\ i \notin export_files
         /\ \E k \in 1..Len(logged) : logged[k].img = i
         /\ i \notin Raising

\* C10: no worker is started whose import directory and export directory
\* are the same directory, whatever 'file://' prefixes the inputs carry.
C10_NeverSameDirectory ==
  thread # "none" => config.import_dir # config.export_dir

\* the messages of the checks that fail on the form of the batch
FailingChecks ==
  LET checks == main_validators(BatchForm(importDirectory, exportDirectory))
  IN  {checks[k] : k \in DOMAIN checks} \ {NoError}

\* Start was clicked and the slot returned or raised
Clicked == feedbackText # <<>>

\* C11: when a check of the validator fails or the construction of the
\* tagger raises, run_geotagging_process creates no worker and starts no
\* thread and no image is copied; on a validation failure the feedback log
\* is 'Validating input...', 'Validation failed' and then every validation
\* error, each once.
C11_SetupFailureStartsNothing ==
  /\ FailingChecks # {} =>
       /\ thread = "none" /\ pc = "idle" /\ config = NoConfig
       /\ export_files = {}
       /\ Clicked =>
            /\ Len(feedbackText) = 2 + Cardinality(FailingChecks)
            /\ feedbackText[1] = Line("Validating input...", 0)
            /\ feedbackText[2] = Line("Validation failed", 0)
            /\ {feedbackText[i] : i \in 3..Len(feedbackText)}
                 = {Line(m, 0) : m \in FailingChecks}
  /\ feedbackText = <<Line("Validating input...", 0)>> =>
       /\ thread = "none" /\ pc = "idle" /\ config = NoConfig
       /\ export_files = {}

C11_Witness ==
  /\ Cardinality(FailingChecks) >= 2
  /\ Clicked
  /\ feedbackText[2] = Line("Validation failed", 0)
  /\ thread = "none"

\* the offset a name 'UTC' sign HH ':' MM states, in minutes: HH hours and
\* MM minutes, both in the direction of the sign
StatedOffset(name) ==
  LET hh == DecimalValue(<<name[5], name[6]>>)
      mm == DecimalValue(<<name[8], name[9]>>)
  IN  IF name[4] = "-" THEN 0 - (60 * hh + mm) ELSE 60 * hh + mm

\* C12: for every entry of TIMEZONES the instance's utcoffset is the signed
\* offset the entry states, whatever datetime it is asked with, and its dst
\* is zero.
C12_SignedFixedOffset ==
  /\ tz # NoTimezone =>
       /\ tz.utcoffset = StatedOffset(tz.tzname)
       /\ tz.dst = 0
  /\ tz_query # NoQuery =>
       /\ tz_query.utcoffset = StatedOffset(tz.tzname)
       /\ tz_query.dst = 0

\* the timestamp the last generate_gps_tags call looked up in the track
QueryTime == trackTimestamp(tagger.clock_offset, tag_call.exif.time)

\* a worker configuration with distinct directories and both collaborators
TaggingConfig ==
  [import_dir |-> <<"/in">>, export_dir |-> <<"/out">>, ifdo_model |-> TRUE,
   kml_export |-> TRUE]

\* C13: an image whose corrected timestamp is strictly before the earliest
\* or strictly after the latest fix is signalled out of range and the
\* worker skips it with the 'not within range of GPX file' diagnostic,
\* copying and tagging nothing; a corrected timestamp inside the range, its
\* two ends included, is tagged.
C13_NoExtrapolation ==
  tag_call.called /\ tag_call.exif.has_time =>
    LET outside == \/ QueryTime < bounds(tagger.track).earliest
                   \/ QueryTime > bounds(tagger.track).latest
        o == process_image(tag_call.fate, TaggingConfig)
    IN  /\ outside =>
             /\ tag_call.result.status = "OUT_OF_TRACK_RANGE"
             /\ tag_call.fate = "out_of_range"
             /\ o.skipped /\ ~o.raised /\ ~o.copied /\ ~o.tagged
             /\ o.errs = <<"not within range of GPX file">>
        /\ ~outside =>
             /\ tag_call.result.status = "Tagged"
             /\ tag_call.fate = "ok"
             /\ o.copied /\ o.tagged /\ o.errs = <<>>

C13_Witness ==
  /\ tag_call.called /\ tag_call.exif.has_time
  /\ Len(tagger.track) >= 2
  /\ tagger.clock_offset.drift # 0
  /\ QueryTime = bounds(tagger.track).latest + 1
  /\ tag_call.fate = "out_of_range"

IsLerp(q, before_value, after_value, before_ts, after_ts, ts) ==
  /\ q.d > 0
  /\ after_ts > before_ts
  /\ q.n * (after_ts - before_ts)
       = q.d * (before_value * (after_ts - before_ts)
                  + (ts - before_ts) * (after_value - before_value))

\* C15: inside the track's time span the position returned is, for
\* bracketing fixes before and after the timestamp, the linear
\* interpolation of latitude, longitude and elevation, each on its own;
\* at a fix's timestamp it is that fix's position and nothing is divided
\* by zero, also when adjacent fixes share the timestamp; halfway between
\* (0, 0) at 10:00:00 and (1, 1) at 10:01:00 it is (1/2, 1/2).
C15_LinearInterpolation ==
  /\ \A r \in interpolate(<<Fix(HMS(10, 0, 0), 0, 0, 0), Fix(HMS(10, 1, 0), 1, 1, 10)>>,
                          HMS(10, 0, 30)) :
       /\ r.status = "Tagged"
       /\ 2 * r.position.lat.n = r.position.lat.d
       /\ 2 * r.position.lon.n = r.position.lon.d
  /\ tag_call.called /\ tag_call.result.status = "Tagged" =>
       LET track == tagger.track
           p == tag_call.result.position
       IN  /\ p.lat.d > 0 /\ p.lon.d > 0 /\ p.ele.d > 0
           /\ IF \E i \in 1..Len(track) : track[i].timestamp = QueryTime
              THEN \E i \in 1..Len(track) :
                     /\ track[i].timestamp = QueryTime
                     /\ p = PositionOf(track[i])
              ELSE \E i \in 1..(Len(track) - 1) :
                     LET before == track[i]
                         after == track[i + 1]
                     IN  /\ before.timestamp <= QueryTime
                         /\ QueryTime <= after.timestamp
                         /\ IsLerp(p.lat, before.lat, after.lat,
                                   before.timestamp, after.timestamp, QueryTime)
                         /\ IsLerp(p.lon, before.lon, after.lon,
                                   before.timestamp, after.timestamp, QueryTime)
                         /\ IsLerp(p.ele, before.ele, after.ele,
                                   before.timestamp, after.timestamp, QueryTime)

C15_Witness ==
  /\ tag_call.called /\ tag_call.result.status = "Tagged"
  /\ Len(tagger.track) = 3
  /\ tagger.track[1].timestamp = tagger.track[2].timestamp
  /\ tagger.track[1].lat # tagger.track[2].lat
  /\ QueryTime = HMS(10, 0, 15)
  /\ tagger.clock_offset.drift # 0
  /\ tag_call.result.position.lat.d = 30
  /\ tag_call.result.position.lat.n # tag_call.result.position.lon.n

\* the result of every check on the model of the last validate call, and
\* the messages of those that failed
LastChecks == validators_of(validator.revision, validator.model)
LastFailing == {LastChecks[k] : k \in DOMAIN LastChecks} \ {NoError}

\* C16: validate returns True exactly when every check returns no error;
\* after False, latest_errors holds exactly the messages of the failing
\* checks, at least one and no None; after True it is empty, also when the
\* call before on the same validator returned False.
C16_ValidateIffNoCheckFails ==
  validator.called =>
    /\ validator.ret <=> (\A k \in DOMAIN LastChecks : LastChecks[k] = NoError)
    /\ ~validator.ret =>
         /\ validator.latest_errors = LastFailing
         /\ validator.latest_errors # {}
         /\ NoError \notin validator.latest_errors
    /\ validator.ret => validator.latest_errors = {}

C16_Witness ==
  /\ validator.called
  /\ validator.ret
  /\ validator.prev_failed
  /\ validator.latest_errors = {}
  /\ validator.model.attributionExport /\ validator.model.ifdoEnable

\* the fields the tests set; every other field is as the constructor left it
TestFields ==
  {"importDirectory", "gpxFilepath", "gpsPhotoFilepath", "gpsDate", "gpsTime",
   "gpsTimezoneIndex", "exportDirectory"}

OnlyTestFieldsSet(m) == \A f \in (DOMAIN m) \ TestFields : m[f] = UserInputModel[f]

\* a path field that is empty or names no regular file
NoRegularFile(p) == p = <<>> \/ ~path_is_file(replace_file_url(p))

\* C17: on a model where only the fields the tests use are set (so
\* gpsPhotoAvailable is still False), validate returns False whenever the
\* GPS photo path is empty, missing or not a regular file, or the GPS date
\* is empty or no ISO date, or the GPS time is empty or no ISO time.
C17_GpsPhotoFieldsChecked ==
  LET m == validator.model
  IN  /\ validator.called
      /\ OnlyTestFieldsSet(m)
      /\ \/ NoRegularFile(m.gpsPhotoFilepath)
         \/ ~date_fromisoformat(m.gpsDate)
         \/ ~time_fromisoformat(m.gpsTime)
      => ~validator.ret

\* the path fields of the form
PathFields == {"importDirectory", "gpxFilepath", "gpsPhotoFilepath", "exportDirectory"}

\* the model with the 'file://' prefix taken off field f
WithoutPrefix(m, f) == [m EXCEPT ![f] = Tail(m[f])]

\* C18: for each path field, validate returns the same value for a model
\* whose path starts with 'file://' and for the model that differs only in
\* that the prefix is removed from that path.
C18_PrefixIndependence ==
  validator.called =>
    \A f \in PathFields :
      Len(validator.model[f]) > 0 /\ Head(validator.model[f]) = FileUrl =>
        validator_validate(validator.revision, WithoutPrefix(validator.model, f)).ret
          = validator.ret

\* C19: whatever the form holds, a clearForm call returns without an error
\* and leaves every field at its constructor default.
C19_ClearFormResets ==
  clearForm_result # "none" =>
    /\ clearForm_result = "returned"
    /\ form = UserInputModel

\* the name ends, whatever the case of its letters, with the extension and
\* has something before it
EndsWith(name, ext) ==
  /\ Len(name) > Len(ext)
  /\ lower(SubSeq(name, Len(name) - Len(ext) + 1, Len(name))) = ext

ImagePaths == {e \in disk.entries : \E ext \in extensions : EndsWith(e.name, ext)}

\* C20: the listing of a directory is exactly the paths under it, at any
\* depth, whose suffix is .jpg, .jpeg or .png in any case of the letters;
\* it is empty when the directory is missing or is not a directory.
C20_GetImages ==
  listing.called =>
    /\ disk.root # "dir" => listing.images = {} /\ listing.count = 0
    /\ disk.root = "dir" =>
         /\ listing.images = ImagePaths
         /\ listing.count = Cardinality(ImagePaths)

C20_Witness ==
  /\ listing.called
  /\ disk.root = "dir"
  /\ \E e \in listing.images : e.nested /\ e.name = <<"b", ".", "J", "P", "G">>
  /\ \E e \in disk.entries \ listing.images : e.name = <<".", "j", "p", "g">>

\* positions of the trace at which a file is written
Writes == {k \in 1..Len(trace) : trace[k].op \in {"copy2", "set_tags"}}

\* positions of the trace at which an image is copied
Copies == {k \in 1..Len(trace) : trace[k].op = "copy2"}

\* the destination the claim names for an image: the export directory
\* joined with the image's path relative to the import directory
Mirrored(image_fn) ==
  worker.config.export_dir
    \o SubSeq(image_fn, Len(worker.config.import_dir) + 1, Len(image_fn))

\* C21: every file the per-image step writes is the image's mirrored path
\* below the export directory (the directories it creates lie below the
\* export directory too), every image whose tags were written has its copy
\* there, and two different source images never share a destination.
C21_MirroredDestinations ==
  /\ \A k \in Writes :
       /\ trace[k].path = Mirrored(worker.image_list[trace[k].img])
       /\ IsWithin(trace[k].path, worker.config.export_dir)
       /\ trace[k].path # worker.config.export_dir
       /\ \E f \in files : f.path = trace[k].path
  /\ \A f \in files : \E k \in Copies : trace[k].path = f.path
  /\ \A d \in dirs : IsWithin(d, worker.config.export_dir)
  /\ \A j, k \in Copies :
       worker.image_list[trace[j].img] # worker.image_list[trace[k].img]
         => trace[j].path # trace[k].path

\* two images, one of them in a subdirectory that had to be created, were
\* both copied and tagged
C21_Witness ==
  /\ step = "done"
  /\ Len(worker.image_list) = 2
  /\ Cardinality(files) = 2
  /\ dirs # {}
  /\ \A i \in 1..2 : \E k \in Writes : trace[k].op = "set_tags" /\ trace[k].img = i

\* C22: within one run the completed counts of the progress events are
\* strictly increasing and every event carries the same total.
C22_ProgressStrictlyIncreasing ==
  \A i, j \in 1..Len(progress_emits) :
    i < j => /\ progress_emits[i][1] < progress_emits[j][1]
             /\ progress_emits[i][2] = progress_emits[j][2]

\* a run that emitted progress for two images, the first of them skipped
C22_Witness ==
  /\ pc = "done"
  /\ Len(progress_emits) = 2
  /\ image_list[1] \in Skips

\* a batch is being started by this step
BatchStarts == step \in {"idle", "done", "raised"} /\ step' = "loop"

\* C23: starting a batch constructs exactly one tagger, which becomes the
\* tagger of the worker's configuration; no step of the worker constructs
\* a tagger or changes the configured tagger or tz_override; and every
\* generate_gps_tags call of the batch is made on the configured tagger
\* with the configured tz_override.
C23_OneTaggerPerBatch ==
  /\ [][/\ BatchStarts => /\ taggers_built' = taggers_built + 1
                          /\ worker'.config.tagger = taggers_built'
        /\ ~BatchStarts => /\ taggers_built' = taggers_built
                           /\ worker'.config.tagger = worker.config.tagger
                           /\ worker'.config.tz_override = worker.config.tz_override]_vars
  /\ [](\A k \in 1..Len(tag_calls) :
          /\ tag_calls[k].tagger = worker.config.tagger
          /\ tag_calls[k].tz_override = worker.config.tz_override)

\* the second batch has asked its tagger for the tags of two images
C23_Witness ==
  /\ taggers_built = 2
  /\ step = "done"
  /\ Len(tag_calls) = 2
  /\ tag_calls[1].img # tag_calls[2].img

\* worker threads whose GeotagWorker.run has not yet emitted finished
RunningWorkers == {i \in 1..Len(workerthreads) : workerthreads[i].state = "running"}

\* C24: at any time at most one worker is running (a click on Start while
\* a worker has not emitted finished starts no second worker).
C24_AtMostOneWorker == Cardinality(RunningWorkers) <= 1

\* the lines run_geotagging_process writes when it starts a worker
BatchHeader ==
  <<Line("Validating input...", 0), Line("Geotagging images ...", 0),
    Line("Processing images...", 0)>>

\* whether sequence s starts with sequence p
StartsWith(s, p) == Len(s) >= Len(p) /\ SubSeq(s, 1, Len(p)) = p

\* C25: from the start of a batch on, the feedback log only grows, it
\* starts with the lines run_geotagging_process wrote, the diagnostics of
\* the images follow in processing order, and the finished line, once
\* there, is the last line.
C25_FeedbackLogOrder ==
  /\ [][(thread # "none" /\ thread' # "none")
          => StartsWith(feedbackText', feedbackText)]_vars
  /\ [](thread # "none" =>
          /\ StartsWith(feedbackText, BatchHeader)
          /\ \A k, l \in (Len(BatchHeader) + 1)..Len(feedbackText) :
               /\ (k < l /\ feedbackText[l] # FinishedLine)
                    => /\ feedbackText[k] # FinishedLine
                       /\ feedbackText[k].img <= feedbackText[l].img
               /\ feedbackText[k].img = 0 => feedbackText[k] = FinishedLine)

\* C26: after updateProgress(current, max) the stored progress is
\* floor(100 * current / max) when max > 0 and 0 otherwise, it lies within
\* 0..100 (the calls made have 0 <= current <= max), and progressChanged is
\* emitted exactly when the stored value changes.
C26_UpdateProgress ==
  /\ [](update_call.called =>
          /\ progress = IF update_call.max_value > 0
                        THEN (100 * update_call.current_value) \div update_call.max_value
                        ELSE 0
          /\ progress \in 0..100)
  /\ [][(progressChanged' # <<>>) <=> (progress' # progress)]_vars

\* the base tags the worker was constructed with
ConfiguredBaseTags ==
  IF form.attributionExport THEN _gen_attribution_tags(form) ELSE {}

\* the tags written into the file at path p, if tags were written there
WrittenTags(p) ==
  {f.content.written[2] : f \in {g \in files : /\ g.path = p
                                                /\ g.content.written[1] = "tagged"}}

\* C27: the worker's base tags stay what they were at construction, and
\* the tags written for an image are the base tags overlaid with the GPS
\* tags the tagger returned for that image (a GPS tag replaces a base tag
\* of the same key) and nothing else.
C27_BaseTagsUntouched ==
  /\ step # "idle" => worker.config.base_tags = ConfiguredBaseTags
  /\ \A k \in 1..Len(tag_calls) :
       \A written \in WrittenTags(Mirrored(worker.image_list[tag_calls[k].img])) :
         /\ ~tag_calls[k].raised
         /\ tag_calls[k].result \subseteq written
         /\ \A p \in written \ tag_calls[k].result :
              /\ p \in ConfiguredBaseTags
              /\ \A q \in tag_calls[k].result : q[1] # p[1]
         /\ \A p \in ConfiguredBaseTags :
              p \in written \/ \E q \in tag_calls[k].result : q[1] = p[1]

\* two images were tagged with attribution tags configured; the tagger's
\* results differ and one of them names a key of the attribution tags
C27_Witness ==
  /\ step = "done"
  /\ ConfiguredBaseTags # {}
  /\ Len(tag_calls) = 2
  /\ tag_calls[1].result # tag_calls[2].result
  /\ \E p \in tag_calls[1].result : p[1] = "Copyright"
  /\ \A k \in 1..2 :
       WrittenTags(Mirrored(worker.image_list[tag_calls[k].img])) # {}

\* positions of the trace at which operation op acts for image img
At(op, img) == {k \in 1..Len(trace) : trace[k].op = op /\ trace[k].img = img}

\* every occurrence of operation a for the image precedes every occurrence
\* of operation b for it, and b does not occur without a
Precedes(a, b, img) ==
  \A l \in At(b, img) : \E k \in At(a, img) : k < l

\* C28: for every image the copy precedes the writing of the tags, which
\* precedes the IFDO add, which precedes the KML add (each at most once);
\* and the hash given to the IFDO model is the hash of the destination
\* copy with the tags written: not of the source, not of the untagged copy.
C28_StepOrderAndHash ==
  /\ \A img \in 1..Len(worker.image_list) :
       /\ \A op \in {"copy2", "set_tags", "add_to_ifdo", "add_image_point"} :
            Cardinality(At(op, img)) <= 1
       /\ Precedes("copy2", "set_tags", img)
       /\ Precedes("set_tags", "add_to_ifdo", img)
       /\ Precedes("set_tags", "add_image_point", img)
       /\ \A k \in At("add_to_ifdo", img) : \A l \in At("add_image_point", img) : k < l
  /\ \A c \in 1..Len(ifdo_calls) :
       LET image_fn == worker.image_list[ifdo_calls[c].img]
           copy     == read_file(files, Mirrored(image_fn))
       IN  /\ ifdo_calls[c].image_hash_sha256 = <<"sha256", copy>>
           /\ copy.source = image_fn
           /\ copy.written[1] = "tagged"
           /\ ifdo_calls[c].image_hash_sha256 # <<"sha256", read_file(files, image_fn)>>
           /\ At("add_to_ifdo", ifdo_calls[c].img) # {}

\* two images went through the copy, the tags, the IFDO add and the KML add
C28_Witness ==
  /\ step = "done"
  /\ Len(ifdo_calls) = 2
  /\ \A img \in 1..2 :
       \A op \in {"copy2", "set_tags", "add_to_ifdo", "add_image_point"} :
         At(op, img) # {}

\* C29: the iFDO checkbox is checked only if the attribution checkbox is
\* checked, and the iFDO detail fields are enabled exactly when the iFDO
\* checkbox is checked.
C29_CheckboxCoupling ==
  /\ window.ifdo_export_checkbox => window.attribution_export
  /\ window.ifdo_group_enabled <=> window.ifdo_export_checkbox

\* both checkboxes were checked in turn and a detail field of the enabled
\* iFDO group was filled in
C29_Witness ==
  /\ window.attribution_export
  /\ window.ifdo_export_checkbox
  /\ window.ifdo_group_enabled
  /\ window.ifdo_text["image_abstract"] = "text"

\* C30: in the legacy GUI no GPX thread overwrites a non-empty site
\* latitude or longitude, and an auto-filled latitude and an auto-filled
\* longitude come from the same GPX file.
C30_AutoFillOnlyWhileEmpty ==
  /\ \A i \in 1..Len(gpx_threads) : ~gpx_threads[i].overwrote
  /\ (auto_filled(site_lat) /\ auto_filled(site_lon))
       => gpx_source(site_lat) = gpx_source(site_lon)

\* the first half alone: no GPX thread overwrites a non-empty site field
GpxNeverOverwritten ==
  \A i \in 1..Len(gpx_threads) : ~gpx_threads[i].overwrote

\* the second half alone: the two auto-filled fields name one GPX file
GpxSameFile ==
  (auto_filled(site_lat) /\ auto_filled(site_lon))
    => gpx_source(site_lat) = gpx_source(site_lon)

====
